---- MODULE Spec2Model ----
(***************************************************************************)
(* Problem detection and deduplication pipeline of ha-llm-ops:             *)
(* agent/problems.py (ProblemLogger, _load_problems, EventBatcher,         *)
(* monitor and its nested handle_batch).                                   *)
(*                                                                         *)
(* Time.  The code reads the event-loop clock only to form differences     *)
(* (delay = last_analysis + rate - now, sleep(d) wakes no earlier than d   *)
(* later).  The model therefore keeps, instead of absolute times, the      *)
(* elapsed time since an instant (saturating at the largest value the code *)
(* can distinguish) and the remaining time of every pending sleep.  Tick   *)
(* lets one second pass.  A sleeper may wake late, never early.            *)
(*                                                                         *)
(* Scheduling.  asyncio runs one task at a time and switches tasks only at *)
(* an await that suspends; every action is the code between two such       *)
(* points.  llm.generate is a blocking call and sits inside one action.    *)
(***************************************************************************)
EXTENDS Integers, Sequences, FiniteSets, TLC

\* ------------------------------------------------------------------ bounds
MaxEvents == 2          \* trigger events the upstream server delivers in one run
MaxFailures == 1        \* failed connection attempts in one run
WindowSeconds == 1      \* the non-zero batch window tried
RateSeconds == 2        \* the non-zero analysis rate tried
SegmentBytes == 40      \* max_bytes of the monitor's ProblemLogger
MaxLimit == 1           \* the largest limit tried
MaxWrites == 4          \* write() calls in the logger specification
ReconnectFailures == 7  \* failed attempts in the reconnect specification

\* ------------------------------------------------------- program constants
BackoffFloor == 1       \* backoff = 1
BackoffCeiling == 30    \* min(backoff * 2, 30)

NoLimit == -1           \* limit = None
NoTime == -1            \* time_fired absent or not ISO 8601
Unlimited == -1         \* a disk that never fills
NoResult == << >>       \* record without a "result" key

Min(a, b) == IF a < b THEN a ELSE b
Max(a, b) == IF a > b THEN a ELSE b

\* ------------------------------------------------------------ json.dumps
(* A serialized text is a sequence of tokens.  With indent=2 json.dumps    *)
(* puts ": " between key and value and a newline after every opening       *)
(* bracket, item and before every closing bracket; with                    *)
(* separators=(",", ":") it emits none of that white space.  Only the      *)
(* "data" member of an event is spelled out; it is the member the          *)
(* fingerprints of this model look at.                                     *)
KeySep(indent) == IF indent THEN <<":", " ">> ELSE <<":">>
Newline(indent) == IF indent THEN <<"\n">> ELSE << >>

EventTokens(e, indent) ==
    <<"{">> \o Newline(indent) \o <<"data">> \o KeySep(indent) \o <<e.tag>>
        \o Newline(indent) \o <<"}">>

RECURSIVE EventListTokens(_, _)
EventListTokens(events, indent) ==
    IF events = << >> THEN << >>
    ELSE EventTokens(Head(events), indent)
         \o (IF Len(events) > 1 THEN <<",">> \o Newline(indent) ELSE << >>)
         \o EventListTokens(Tail(events), indent)

\* event_ctx = events[0] if len(events) == 1 else {"events": events}
EventCtxTokens(events, indent) ==
    IF Len(events) = 1 THEN EventTokens(events[1], indent)
    ELSE <<"{">> \o Newline(indent) \o <<"events">> \o KeySep(indent) \o <<"[">>
         \o Newline(indent) \o EventListTokens(events, indent)
         \o Newline(indent) \o <<"]">> \o Newline(indent) \o <<"}">>

\* ------------------------------------------------------------- re module
(* A pattern is a sequence of tokens; "." is the wildcard; "(" alone is an *)
(* unbalanced parenthesis, on which re.compile raises re.error.            *)
Compiles(text) == \A i \in 1..Len(text) : text[i] # "("

\* re.compile(pattern, re.DOTALL), falling back to re.escape(pattern)
CompilePattern(text) ==
    [text |-> text, literal |-> ~Compiles(text), dotall |-> TRUE]

TokenMatches(p, pt, ch) ==
    IF pt = "." /\ ~p.literal THEN (p.dotall \/ ch # "\n") ELSE pt = ch

\* compiled.search(text): the pattern occurs somewhere in the text
Search(p, text) ==
    \E i \in 0..(Len(text) - Len(p.text)) :
        \A j \in 1..Len(p.text) : TokenMatches(p, p.text[j], text[i + j])

\* ------------------------------------------------------------------ state
VARIABLES
    batch_seconds,          \* monitor(batch_seconds=...)
    analysis_rate_seconds,  \* monitor(analysis_rate_seconds=...)
    limit,                  \* monitor(limit=...), NoLimit for None
    max_bytes,              \* ProblemLogger.max_bytes
    files,                  \* the problems_*.jsonl segments in sorted order, each a
                            \* sequence of lines; the last one is ProblemLogger._file
    problems,               \* monitor's list of {"pattern", "count"}
    backoff,                \* monitor's backoff
    processed,              \* monitor's processed
    stop,                   \* monitor's stop
    since_analysis,         \* now - last_analysis, saturating at analysis_rate_seconds
    last_time_fired,        \* monitor's last_time_fired
    pc,                     \* where the monitor task stands
    sleep_left,             \* remaining time of the monitor task's pending sleep
    flush_then,             \* what follows the flush in progress: "add" or "end"
    event,                  \* the classified event waiting for batcher.add
    evt_time,               \* its evt_time
    inline,                 \* the batch of the callback awaited inside flush()
    batcher,                \* the EventBatcher: _events, _task, _immediate
    budget,                 \* what the upstream may still do in this run: the number
                            \* of trigger events to deliver and of attempts to fail
    last_error,             \* history: the except clause the last failed attempt ran
    wire,                   \* history: the messages sent and received on the
                            \* connection up to the subscriptions, in order
    calls,                  \* history: number of llm.generate calls
    since_call,             \* history: time since the last llm.generate call
    delays,                 \* history: the backoff sleeps requested, in order
    written,                \* history: the records passed to ProblemLogger.write
    added,                  \* history: ids of the events passed to EventBatcher.add
    completed,              \* history: ids of the events of completed callbacks
    disk_room,              \* the number of lines the disk of the problem directory
                            \* has room for, Unlimited if it never fills
    probe                   \* a message or pattern on which one of the pure
                            \* functions is run outside the monitor, with the results

\* what no step of the monitor changes
config == <<batch_seconds, analysis_rate_seconds, limit, max_bytes, disk_room, probe>>
monitor_vars == <<problems, backoff, processed, stop, since_analysis, last_time_fired,
                  pc, sleep_left, flush_then, event, evt_time, inline>>
history_vars == <<last_error, wire, calls, since_call, delays, written, added, completed>>
vars == <<config, files, monitor_vars, batcher, budget, history_vars>>

\* ------------------------------------------------------ validate_pattern
\* the number of characters a token of a pattern text stands for
Width(token) == IF token = "data" THEN 4 ELSE IF token = "error" THEN 5 ELSE 1

RECURSIVE TextLen(_)
TextLen(text) == IF text = << >> THEN 0 ELSE Width(Head(text)) + TextLen(Tail(text))

Whitespace == {" ", "\n"}
Digits == {"0", "1", "2", "3", "4", "5", "6", "7", "8", "9"}

\* pattern.strip()
RECURSIVE Strip(_)
Strip(text) ==
    IF text = << >> THEN text
    ELSE IF Head(text) \in Whitespace THEN Strip(Tail(text))
    ELSE IF text[Len(text)] \in Whitespace THEN Strip(SubSeq(text, 1, Len(text) - 1))
    ELSE text

\* validate_pattern(pattern)
validate_pattern(pattern) ==
    LET text == Strip(pattern)
    IN  /\ TextLen(text) >= 5
        /\ text \notin { <<".", "*">>, <<"^", ".", "*", "$">>,
                         <<".", "*", "error", ".", "*">> }
        /\ ~\E i \in 1..(Len(text) - 3) : \A k \in 0..3 : text[i + k] \in Digits
        /\ Compiles(text)

\* --------------------------------------------------------- ProblemLogger
\* len(json.dumps(record, sort_keys=True)), one unit per token
JsonLineLen(record) ==
    2 + (IF record.error THEN 4 ELSE 0)
      + 2 + Len(EventCtxTokens(record.event, FALSE))
      + 4
      + (IF record.result # NoResult THEN 6 + Len(record.result[1]) ELSE 0)
      + (IF record.trigger_type # {} THEN 4 ELSE 0)

RECURSIVE FileSize(_)
FileSize(lines) ==
    IF lines = << >> THEN 0 ELSE JsonLineLen(Head(lines)) + 1 + FileSize(Tail(lines))

\* self._file.tell() of a file opened for appending
Tell(fs) == FileSize(fs[Len(fs)])

\* ProblemLogger._open_file: a new, empty segment that sorts after the others
OpenFile(fs) == Append(fs, << >>)

\* ProblemLogger.write, were the test to leave out the newline
LoggerWriteNoNewline(fs, record, maxb) ==
    LET rotated == IF Tell(fs) + JsonLineLen(record) > maxb THEN OpenFile(fs) ELSE fs
    IN  [rotated EXCEPT ![Len(rotated)] = Append(@, record)]

\* ProblemLogger.write: the segments after writing record
LoggerWrite(fs, record, maxb) ==
    LET rotated == IF Tell(fs) + JsonLineLen(record) + 1 > maxb THEN OpenFile(fs) ELSE fs
    IN  [rotated EXCEPT ![Len(rotated)] = Append(@, record)]

RECURSIVE AllLines(_)
AllLines(fs) == IF fs = << >> THEN << >> ELSE Head(fs) \o AllLines(Tail(fs))

\* --------------------------------------------------------- _load_problems
IndexOfPattern(loaded, text) ==
    LET hits == {i \in 1..Len(loaded) : loaded[i].pattern.text = text}
    IN  IF hits = {} THEN 0 ELSE CHOOSE i \in hits : TRUE

\* a line that is blank, cut short, not JSON, or JSON that is no object:
\* json.loads raises on the first three and data.get on the last
Unreadable(line) == "text" \in DOMAIN line

\* what the scan yields when an exception other than OSError leaves it
Raised == << [raised |-> "Exception"] >>
IsRaised(loaded) == loaded # << >> /\ "raised" \in DOMAIN loaded[1]

\* the scan, were it to keep the occurrence read last instead of the maximum
RECURSIVE LoadLinesLast(_, _)
LoadLinesLast(lines, loaded) ==
    IF lines = << >> THEN loaded
    ELSE LET data == Head(lines)
             at == IF data.result = NoResult THEN 0
                   ELSE IndexOfPattern(loaded, data.result[1])
         IN  LoadLinesLast(Tail(lines),
                 IF data.result = NoResult THEN loaded
                 ELSE IF at = 0
                      THEN Append(loaded, [pattern |-> CompilePattern(data.result[1]),
                                           count |-> Max(0, data.occurrence)])
                      ELSE [loaded EXCEPT ![at].count = data.occurrence])

\* the scan of the lines of all segments in sorted order
RECURSIVE LoadLines(_, _)
LoadLines(lines, loaded) ==
    IF lines = << >> THEN loaded
    ELSE IF Unreadable(Head(lines)) THEN Raised
    ELSE LET data == Head(lines)
             at == IF data.result = NoResult THEN 0
                   ELSE IndexOfPattern(loaded, data.result[1])
         IN  LoadLines(Tail(lines),
                 IF data.result = NoResult THEN loaded
                 ELSE IF at = 0
                      THEN Append(loaded, [pattern |-> CompilePattern(data.result[1]),
                                           count |-> Max(0, data.occurrence)])
                      ELSE [loaded EXCEPT ![at].count = Max(@, data.occurrence)])

\* _load_problems(directory): one entry per distinct pattern, in first-seen order
LoadProblems(fs) == LoadLines(AllLines(fs), << >>)

\* ------------------------------------------------------------ handle_batch
\* the loop over problems, were a later match to replace an earlier one
MatchLast(probs, events) ==
    LET event_json == EventCtxTokens(events, TRUE)
        event_json_compact == EventCtxTokens(events, FALSE)
        hits == {i \in 1..Len(probs) :
                    \/ Search(probs[i].pattern, event_json)
                    \/ Search(probs[i].pattern, event_json_compact)}
    IN  IF hits = {} THEN 0 ELSE CHOOSE i \in hits : \A j \in hits : i >= j

\* the loop over problems: index of the first fingerprint found in either the
\* indented or the compact serialization of the batch, 0 for None
Match(probs, events) ==
    LET event_json == EventCtxTokens(events, TRUE)
        event_json_compact == EventCtxTokens(events, FALSE)
        hits == {i \in 1..Len(probs) :
                    \/ Search(probs[i].pattern, event_json)
                    \/ Search(probs[i].pattern, event_json_compact)}
    IN  IF hits = {} THEN 0 ELSE CHOOSE i \in hits : \A j \in hits : i <= j

TriggerTypes(events) == {events[i].trigger_type : i \in 1..Len(events)}
EventIds(events) == {events[i].id : i \in 1..Len(events)}

\* delay = last_analysis + analysis_rate_seconds - now
Delay == analysis_rate_seconds - since_analysis

\* handle_batch reaches "await asyncio.sleep(delay)"
Suspends(events) == Match(problems, events) = 0 /\ Delay > 0

hb_vars == <<problems, files, processed, stop, since_analysis,
             calls, since_call, written, completed>>

\* self._file.write raises OSError: the disk is full
WriteFails == disk_room # Unlimited /\ Len(AllLines(files)) >= disk_room

\* the end of handle_batch, were processed to count the events of the batch
WriteRecordCountsEvents(record) ==
    /\ files' = LoggerWrite(files, record, max_bytes)
    /\ written' = Append(written, record)
    /\ processed' = processed + Len(record.event)
    /\ stop' = IF limit # NoLimit /\ processed + Len(record.event) >= limit
               THEN TRUE ELSE stop
    /\ completed' = completed \cup EventIds(record.event)

\* problem_logger.write(record); processed += 1; stop once the limit is reached
\* when write raises, the exception leaves handle_batch at that line
WriteRecord(record) ==
    IF WriteFails
    THEN UNCHANGED <<files, written, processed, stop, completed>>
    ELSE /\ files' = LoggerWrite(files, record, max_bytes)
         /\ written' = Append(written, record)
         /\ processed' = processed + 1
         /\ stop' = IF limit # NoLimit /\ processed + 1 >= limit THEN TRUE ELSE stop
         /\ completed' = completed \cup EventIds(record.event)

\* the branch "matched is not None", were the record to carry the counter
\* as it was before the increment
RecurrenceStaleCount(events) ==
    LET matched == Match(problems, events)
    IN  /\ problems' = [problems EXCEPT ![matched].count = @ + 1]
        /\ WriteRecord([event |-> events,
                        occurrence |-> problems[matched].count,
                        result |-> NoResult,
                        error |-> FALSE,
                        trigger_type |-> TriggerTypes(events)])
        /\ UNCHANGED <<since_analysis, calls, since_call>>

\* the branch "matched is not None"
Recurrence(events) ==
    LET matched == Match(problems, events)
    IN  /\ problems' = [problems EXCEPT ![matched].count = @ + 1]
        /\ WriteRecord([event |-> events,
                        occurrence |-> problems[matched].count + 1,
                        result |-> NoResult,
                        error |-> FALSE,
                        trigger_type |-> TriggerTypes(events)])
        /\ UNCHANGED <<since_analysis, calls, since_call>>

\* what llm.generate followed by parse_result can yield: << >> when either
\* raises, <<p>> for an RcaResult whose recurrence_pattern is p
Patterns == { <<"a">>, <<"data", ":", "b">> }
BackendOutcomes == { << >> } \cup { <<p>> : p \in Patterns }

\* the try / except / else around llm.generate, then the write.  The blocking
\* call is given no duration: the shortest distance between two calls.
Analyze(events) ==
    \E outcome \in BackendOutcomes :
        /\ calls' = calls + 1
        /\ since_call' = 0
        /\ since_analysis' = IF outcome = << >> THEN since_analysis ELSE 0
        /\ problems' = IF outcome = << >> THEN problems
                       ELSE Append(problems, [pattern |-> CompilePattern(outcome[1]),
                                              count |-> 1])
        /\ WriteRecord([event |-> events,
                        occurrence |-> 1,
                        result |-> outcome,
                        error |-> (outcome = << >>),
                        trigger_type |-> TriggerTypes(events)])

\* handle_batch from its first line to its end, when it does not sleep
HandleBatch(events) ==
    IF Match(problems, events) # 0 THEN Recurrence(events) ELSE Analyze(events)

\* ------------------------------------------------------------ EventBatcher
NoTask == [state |-> "none", left |-> 0, batch |-> << >>]
TimerTask == [state |-> "window", left |-> batch_seconds, batch |-> << >>]

\* EventBatcher.add, were it to queue the event whatever the window
BatcherAddQueued(b, e) ==
    [b EXCEPT !._events = Append(@, e),
              !._task = IF @.state = "none" THEN TimerTask ELSE @]

\* EventBatcher.add
BatcherAdd(b, e) ==
    IF batch_seconds <= 0
    THEN [b EXCEPT !._immediate =
              Append(@, [state |-> "pending", left |-> 0, batch |-> <<e>>])]
    ELSE [b EXCEPT !._events = Append(@, e),
                   !._task = IF @.state = "none" THEN TimerTask ELSE @]

\* the end of _run, were it to start the next timer whatever the queue holds
RearmAlways(b) == TimerTask

\* the task that follows a finished callback of _run
Rearm(b) == IF b._events # << >> THEN TimerTask ELSE NoTask

\* a task that ended with the exception its callback raised
FailedTask == [state |-> "failed", left |-> 0, batch |-> << >>]

\* EventBatcher._run after "await self.callback(events)"; when the callback
\* raised, _run ends there and self._task keeps the finished task
AfterCallback(b) == IF WriteFails THEN FailedTask ELSE Rearm(b)

\* EventBatcher._run: the window has elapsed, the callback is entered
TimerExpire ==
    /\ batcher._task.state = "window"
    /\ batcher._task.left = 0
    /\ LET events == batcher._events
       IN  IF Suspends(events)
           THEN /\ batcher' = [batcher EXCEPT
                        !._events = << >>,
                        !._task = [state |-> "callback", left |-> Delay,
                                   batch |-> events]]
                /\ UNCHANGED hb_vars
           ELSE /\ HandleBatch(events)
                /\ batcher' = [batcher EXCEPT
                        !._events = << >>,
                        !._task = AfterCallback([batcher EXCEPT !._events = << >>])]
    /\ UNCHANGED <<config, backoff, last_time_fired, pc, sleep_left, flush_then,
                   event, evt_time, inline, budget, last_error, wire, delays, added>>

\* EventBatcher._run: the callback resumes after its rate-limit sleep
TimerCallbackResume ==
    /\ batcher._task.state = "callback"
    /\ batcher._task.left = 0
    /\ Analyze(batcher._task.batch)
    /\ batcher' = [batcher EXCEPT !._task = AfterCallback(batcher)]
    /\ UNCHANGED <<config, backoff, last_time_fired, pc, sleep_left, flush_then,
                   event, evt_time, inline, budget, last_error, wire, delays, added>>

\* a task made by add() with window <= 0 runs the callback; the event loop
\* starts the tasks in the order of their creation
ImmediateStart(i) ==
    /\ batcher._immediate[i].state = "pending"
    /\ \A j \in 1..(i - 1) : batcher._immediate[j].state # "pending"
    /\ LET events == batcher._immediate[i].batch
       IN  IF Suspends(events)
           THEN /\ batcher' = [batcher EXCEPT !._immediate[i] =
                        [state |-> "sleeping", left |-> Delay, batch |-> events]]
                /\ UNCHANGED hb_vars
           ELSE /\ HandleBatch(events)
                /\ batcher' = [batcher EXCEPT !._immediate[i].state =
                                                  IF WriteFails THEN "failed" ELSE "done"]
    /\ UNCHANGED <<config, backoff, last_time_fired, pc, sleep_left, flush_then,
                   event, evt_time, inline, budget, last_error, wire, delays, added>>

\* such a task resumes after its rate-limit sleep
ImmediateResume(i) ==
    /\ batcher._immediate[i].state = "sleeping"
    /\ batcher._immediate[i].left = 0
    /\ Analyze(batcher._immediate[i].batch)
    /\ batcher' = [batcher EXCEPT !._immediate[i].state =
                                      IF WriteFails THEN "failed" ELSE "done"]
    /\ UNCHANGED <<config, backoff, last_time_fired, pc, sleep_left, flush_then,
                   event, evt_time, inline, budget, last_error, wire, delays, added>>

\* task.cancel() followed by awaiting the task
Cancel(task) ==
    IF task.state \in {"window", "callback"}
    THEN [state |-> "cancelled", left |-> 0, batch |-> << >>]
    ELSE task

\* ------------------------------------------------------------ JSON values
\* a decoded JSON value is a tagged tuple; a dict is its sequence of
\* <<key, value>> items in insertion order
Null == <<"null">>
Bool(b) == <<"bool", b>>
Num(n) == <<"int", n>>
Str(s) == <<"str", s>>
List(elems) == <<"list", elems>>
Dict(items) == <<"dict", items>>

\* Python's truth value of a decoded JSON value
Truthy(v) ==
    IF v[1] = "null" THEN FALSE
    ELSE IF v[1] = "bool" THEN v[2]
    ELSE IF v[1] = "int" THEN v[2] # 0
    ELSE IF v[1] = "str" THEN v[2] # ""
    ELSE v[2] # << >>

\* "v is False"
IsFalse(v) == IF v[1] = "bool" THEN ~v[2] ELSE FALSE

\* obj.get(key) of a dict
Get(obj, key) ==
    IF \E k \in 1..Len(obj[2]) : obj[2][k][1] = key
    THEN obj[2][CHOOSE k \in 1..Len(obj[2]) : obj[2][k][1] = key][2]
    ELSE Null

\* a walk that looks only one level below the top, for comparison
ContainsFailureShallow(obj) ==
    IF obj[1] = "dict"
    THEN \/ Truthy(Get(obj, "error")) \/ IsFalse(Get(obj, "success"))
         \/ \E k \in 1..Len(obj[2]) :
                /\ obj[2][k][2][1] = "dict"
                /\ \/ Truthy(Get(obj[2][k][2], "error"))
                   \/ IsFalse(Get(obj[2][k][2], "success"))
    ELSE FALSE

RECURSIVE _contains_failure(_)
_contains_failure(obj) ==
    IF obj[1] = "dict"
    THEN IF Truthy(Get(obj, "error")) \/ IsFalse(Get(obj, "success"))
         THEN TRUE
         ELSE \E k \in 1..Len(obj[2]) : _contains_failure(obj[2][k][2])
    ELSE IF obj[1] = "list"
    THEN \E k \in 1..Len(obj[2]) : _contains_failure(obj[2][k])
    ELSE FALSE

\* ------------------------------------------------------------ the upstream
Tags == {"a", "b"}
TimesFired == {NoTime, 0, WindowSeconds + 1}

\* str.upper() on the level names that occur
Upper(s) ==
    IF s \in {"error", "Error", "ERROR"} THEN "ERROR"
    ELSE IF s \in {"critical", "Critical", "CRITICAL"} THEN "CRITICAL"
    ELSE IF s \in {"warning", "WARNING"} THEN "WARNING"
    ELSE s

\* the two-armed test monitor applies to a log level
LevelIsError(level) ==
    IF level[1] = "int" THEN level[2] >= 40
    ELSE IF level[1] = "str" THEN Upper(level[2]) \in {"ERROR", "CRITICAL"}
    ELSE FALSE

\* a message of the server. decodes: the text is JSON; shape: which of the
\* members monitor reads with .get is present but not an object ("ok":
\* none, "event_missing": no event member at all); type, event_type: the
\* members of those names; tag: the data member as the record spells it;
\* level: the level of a log entry; data: the data member of a trace;
\* state: new_state.state; subtype: data.event of a supervisor event
Plain ==
    [decodes |-> TRUE, shape |-> "ok", type |-> "event", event_type |-> "call_service",
     tag |-> "a", level |-> Null, data |-> Dict(<< >>), state |-> "", subtype |-> "",
     time_fired |-> NoTime]

LogEvent(level, t) ==
    [Plain EXCEPT !.event_type = "system_log_event", !.level = level, !.time_fired = t]
Trace(data, t) ==
    [Plain EXCEPT !.event_type = "trace", !.tag = "b", !.data = data, !.time_fired = t]
StateChanged(state) ==
    [Plain EXCEPT !.event_type = "state_changed", !.state = state]
SupervisorEvent(subtype, level) ==
    [Plain EXCEPT !.event_type = "supervisor_event", !.subtype = subtype,
                  !.level = level]
Misshapen(message, shape) == [message EXCEPT !.shape = shape]

Failed == Dict(<< <<"result", List(<< Dict(<< <<"success", Bool(FALSE)>> >>) >>)>> >>)
Passed == Dict(<< <<"result", List(<< Dict(<< <<"success", Bool(TRUE)>> >>) >>)>> >>)

Shapes == {"ok", "event_missing", "not_object", "event_not_object",
           "data_not_object", "log_not_object"}

\* the messages whose members are not the objects monitor expects
Malformed ==
    { Misshapen(LogEvent(Num(40), NoTime), "not_object"),
      Misshapen(LogEvent(Num(40), NoTime), "event_missing"),
      Misshapen(LogEvent(Num(40), NoTime), "event_not_object"),
      Misshapen(LogEvent(Num(40), NoTime), "data_not_object"),
      Misshapen(StateChanged("unavailable"), "data_not_object"),
      Misshapen(SupervisorEvent("addon", Num(40)), "data_not_object"),
      Misshapen(SupervisorEvent("addon", Num(40)), "log_not_object"),
      Misshapen(SupervisorEvent("core", Num(40)), "log_not_object") }

\* what the server may send after the subscriptions: log events of level 40
\* and 30, traces with and without a failure marker, supervisor events, a
\* state change, an event of another type, a message that is no event,
\* malformed messages, and text that is not JSON
Messages ==
    UNION { { LogEvent(Num(40), t), Trace(Failed, t) } : t \in TimesFired }
    \cup { LogEvent(Num(30), NoTime), LogEvent(Str("error"), NoTime),
           Trace(Passed, NoTime),
           SupervisorEvent("addon", Str("CRITICAL")), SupervisorEvent("core", Num(40)),
           StateChanged("on"),
           Plain, [Plain EXCEPT !.type = "result"], [Plain EXCEPT !.decodes = FALSE] }
    \cup Malformed

\* the classification of monitor's message loop: "none" for trigger_type
\* None, "raise" where a .get is applied to something that has none
Classify(data) ==
    IF data.shape = "not_object" THEN "raise"
    ELSE IF data.type # "event" THEN "none"
    ELSE IF data.shape = "event_missing" THEN "none"
    ELSE IF data.shape = "event_not_object" THEN "raise"
    ELSE IF data.event_type = "system_log_event"
         THEN (IF data.shape = "data_not_object" THEN "raise"
               ELSE IF LevelIsError(data.level) THEN "error_log" ELSE "none")
    ELSE IF data.event_type = "trace"
         THEN (IF _contains_failure(data.data) THEN "automation_failure" ELSE "none")
    ELSE IF data.event_type = "state_changed"
         THEN (IF data.shape = "data_not_object" THEN "raise"
               ELSE IF data.state = "unavailable" THEN "entity_unavailable" ELSE "none")
    ELSE IF data.event_type = "supervisor_event"
         THEN (IF data.shape = "data_not_object" THEN "raise"
               ELSE IF data.subtype # "addon" THEN "none"
               ELSE IF data.shape = "log_not_object" THEN "raise"
               ELSE IF LevelIsError(data.level) THEN "error_log" ELSE "none")
    ELSE "none"

\* no function is being run on its own
NoProbe == [on |-> "nothing"]

\* the event dict handed to the batcher; id numbers the accepted messages
EventOf(data, id) ==
    [id |-> id, tag |-> data.tag, trigger_type |-> Classify(data),
     time_fired |-> data.time_fired]

NoEvent == [id |-> 0, tag |-> "", trigger_type |-> "none", time_fired |-> NoTime]

\* ---------------------------------------------------------------- monitor
\* "await asyncio.sleep(backoff)" of the except clause for error
SleepBackoff(error) ==
    /\ last_error' = error
    /\ pc' = "backoff"
    /\ sleep_left' = backoff
    /\ delays' = Append(delays, backoff)
    /\ budget' = [budget EXCEPT !.failures = @ - 1]

\* websockets.connect succeeds
ConnectOk ==
    /\ pc = "connect"
    /\ pc' = "auth"
    /\ wire' = << >>
    /\ UNCHANGED <<config, files, problems, backoff, processed, stop, since_analysis,
                   last_time_fired, sleep_left, flush_then, event, evt_time, inline,
                   batcher, budget,
                   last_error, calls, since_call, delays, written, added, completed>>

\* websockets.connect raises InvalidHandshake: "continue"
ConnectInvalidHandshake ==
    /\ pc = "connect"
    /\ budget.failures > 0
    /\ budget' = [budget EXCEPT !.failures = @ - 1]
    /\ last_error' = "InvalidHandshake"
    /\ UNCHANGED <<config, files, monitor_vars, batcher,
                   wire, calls, since_call, delays, written, added, completed>>

\* websockets.connect raises another error (OSError, timeout)
ConnectError ==
    /\ pc = "connect"
    /\ budget.failures > 0
    /\ SleepBackoff("Exception")
    /\ UNCHANGED <<config, files, problems, backoff, processed, stop, since_analysis,
                   last_time_fired, flush_then, event, evt_time, inline, batcher,
                   wire, calls, since_call, written, added, completed>>

\* what the server may send first, and in answer to the auth message;
\* "closed" stands for ws.recv() raising ConnectionClosed
FirstMessages == {"auth_required", "auth_ok", "closed"}
AuthReplies == {"auth_ok", "auth_invalid", "closed"}

\* the entries of wire
Sent(msg) == <<"sent", msg>>
Received(msg) == <<"received", msg>>

\* the exception _authenticate ends with on the message msg
AuthFailure(msg) == IF msg = "closed" THEN "ConnectionClosed" ELSE "AuthenticationError"

\* _authenticate up to its second ws.recv(), were the type of the first
\* message not looked at
AuthBeginUnchecked(first) ==
    /\ pc = "auth"
    /\ IF first # "closed"
       THEN /\ pc' = "auth_reply"
            /\ wire' = wire \o <<Received(first), Sent("auth_token")>>
            /\ UNCHANGED <<last_error, sleep_left, delays, budget>>
       ELSE /\ budget.failures > 0
            /\ SleepBackoff(AuthFailure(first))
            /\ wire' = Append(wire, Received(first))
    /\ UNCHANGED <<config, files, problems, backoff, processed, stop, since_analysis,
                   last_time_fired, flush_then, event, evt_time, inline, batcher,
                   calls, since_call, written, added, completed>>

\* _authenticate up to its second ws.recv(): the first message is read and,
\* when it is auth_required, the auth message with the token is sent
AuthBegin(first) ==
    /\ pc = "auth"
    /\ IF first = "auth_required"
       THEN /\ pc' = "auth_reply"
            /\ wire' = wire \o <<Received(first), Sent("auth_token")>>
            /\ UNCHANGED <<last_error, sleep_left, delays, budget>>
       ELSE /\ budget.failures > 0
            /\ SleepBackoff(AuthFailure(first))
            /\ wire' = Append(wire, Received(first))
    /\ UNCHANGED <<config, files, problems, backoff, processed, stop, since_analysis,
                   last_time_fired, flush_then, event, evt_time, inline, batcher,
                   calls, since_call, written, added, completed>>

\* the answer is auth_ok: _authenticate returns and both subscriptions are sent
AuthOk ==
    /\ pc = "auth_reply"
    /\ pc' = "recv"
    /\ wire' = wire \o <<Received("auth_ok"),
                         Sent("subscribe_events"), Sent("supervisor/subscribe")>>
    /\ UNCHANGED <<config, files, problems, backoff, processed, stop, since_analysis,
                   last_time_fired, sleep_left, flush_then, event, evt_time, inline, batcher,
                   budget,
                   last_error, calls, since_call, delays, written, added, completed>>

\* the answer is not auth_ok: _authenticate raises AuthenticationError, or
\* ConnectionClosed when the socket closed instead
AuthError(reply) ==
    /\ pc = "auth_reply"
    /\ budget.failures > 0
    /\ SleepBackoff(AuthFailure(reply))
    /\ wire' = Append(wire, Received(reply))
    /\ UNCHANGED <<config, files, problems, backoff, processed, stop, since_analysis,
                   last_time_fired, flush_then, event, evt_time, inline, batcher,
                   calls, since_call, written, added, completed>>

\* what follows "await batcher.flush()" once flush has returned, for the
\* batcher b it leaves and the value of stop at that moment
AfterFlush(b, stopped) ==
    IF flush_then = "add"
    THEN /\ batcher' = BatcherAdd(b, event)
         /\ added' = added \cup {event.id}
         /\ last_time_fired' = IF evt_time # NoTime THEN evt_time ELSE last_time_fired
         /\ pc' = "recv"
         /\ event' = NoEvent
         /\ evt_time' = NoTime
         /\ UNCHANGED backoff
    ELSE /\ batcher' = b
         /\ pc' = IF stopped \/ limit = 0 THEN "done" ELSE "connect"
         /\ backoff' = IF stopped \/ limit = 0 THEN backoff ELSE BackoffFloor
         /\ UNCHANGED <<added, last_time_fired, event, evt_time>>

\* the end of flush(): "if self._immediate: await asyncio.gather(...)"
FlushRest(b, stopped) ==
    IF b._immediate # << >>
    THEN /\ batcher' = b
         /\ pc' = "flush_gather"
         /\ UNCHANGED <<added, last_time_fired, event, evt_time, backoff>>
    ELSE AfterFlush(b, stopped)

\* an exception leaves flush() with the batcher as b, and with it the message
\* loop and the connection: "except Exception"
FlushRaise(b) ==
    /\ budget.failures > 0
    /\ SleepBackoff("OSError")
    /\ batcher' = b
    /\ event' = NoEvent
    /\ evt_time' = NoTime
    /\ UNCHANGED <<added, last_time_fired, backoff>>

\* EventBatcher.flush up to its first suspension
FlushBegin ==
    /\ pc = "flush"
    /\ LET cancelled == [batcher EXCEPT !._task = Cancel(@)]
           events == batcher._events
           taken == [cancelled EXCEPT !._events = << >>]
       IN  IF batcher._task.state = "failed"
           THEN \* "await self._task" raises what the task ended with
                /\ FlushRaise(batcher)
                /\ UNCHANGED <<hb_vars, inline>>
           ELSE IF events = << >>
           THEN /\ FlushRest(cancelled, stop)
                /\ UNCHANGED <<hb_vars, inline, sleep_left, budget, last_error, delays>>
           ELSE IF Suspends(events)
           THEN /\ batcher' = taken
                /\ pc' = "flush_callback"
                /\ inline' = events
                /\ sleep_left' = Delay
                /\ UNCHANGED <<hb_vars, added, last_time_fired, event, evt_time, backoff,
                               budget, last_error, delays>>
           ELSE IF WriteFails
           THEN /\ HandleBatch(events)
                /\ FlushRaise(taken)
                /\ UNCHANGED inline
           ELSE /\ HandleBatch(events)
                /\ FlushRest(taken, stop')
                /\ UNCHANGED <<inline, sleep_left, budget, last_error, delays>>
    /\ UNCHANGED <<config, flush_then, wire>>

\* the callback awaited by flush() resumes after its rate-limit sleep
FlushCallbackResume ==
    /\ pc = "flush_callback"
    /\ sleep_left = 0
    /\ Analyze(inline)
    /\ inline' = << >>
    /\ IF WriteFails
       THEN FlushRaise(batcher)
       ELSE /\ FlushRest(batcher, stop')
            /\ UNCHANGED <<sleep_left, budget, last_error, delays>>
    /\ UNCHANGED <<config, flush_then, wire>>

\* asyncio.gather(*self._immediate) returns, then self._immediate.clear();
\* or it raises what one of the tasks ended with, and nothing is cleared
FlushGather ==
    /\ pc = "flush_gather"
    /\ IF \E i \in 1..Len(batcher._immediate) : batcher._immediate[i].state = "failed"
       THEN /\ FlushRaise(batcher)
            /\ UNCHANGED <<hb_vars, inline>>
       ELSE /\ \A i \in 1..Len(batcher._immediate) : batcher._immediate[i].state = "done"
            /\ AfterFlush([batcher EXCEPT !._immediate = << >>], stop)
            /\ UNCHANGED <<hb_vars, inline, sleep_left, budget, last_error, delays>>
    /\ UNCHANGED <<config, flush_then, wire>>

\* the test before "await batcher.flush()", were the two times subtracted
\* the other way round
TimeGapSwapped(t) ==
    /\ t # NoTime
    /\ last_time_fired # NoTime
    /\ last_time_fired - t > batch_seconds

\* "if evt_time is not None and last_time_fired is not None" and
\* "(evt_time - last_time_fired).total_seconds() > batch_seconds"
TimeGap(t) ==
    /\ t # NoTime
    /\ last_time_fired # NoTime
    /\ t - last_time_fired > batch_seconds

\* one turn of "async for message in ws" with a message
Receive(message) ==
    /\ pc = "recv"
    /\ IF stop
       THEN \* break, then "await batcher.flush()"
            /\ pc' = "flush"
            /\ flush_then' = "end"
            /\ UNCHANGED <<event, evt_time, batcher, added, last_time_fired, sleep_left,
                           delays, budget, last_error, wire>>
       ELSE IF ~message.decodes \/ Classify(message) = "raise"
       THEN \* json.loads or a .get raises: "except Exception"
            /\ budget.failures > 0
            /\ SleepBackoff("Exception")
            /\ UNCHANGED <<event, evt_time, batcher, added, last_time_fired, flush_then,
                           wire>>
       ELSE IF Classify(message) = "none"
       THEN \* continue
            UNCHANGED <<pc, event, evt_time, batcher, added, last_time_fired,
                        flush_then, sleep_left, delays, budget, last_error, wire>>
       ELSE LET e == EventOf(message, Cardinality(added) + 1)
                t == message.time_fired
            IN  /\ budget.events > 0
                /\ budget' = [budget EXCEPT !.events = @ - 1]
                /\ UNCHANGED <<last_error, wire>>
                /\ IF TimeGap(t)
                   THEN /\ pc' = "flush"
                        /\ flush_then' = "add"
                        /\ event' = e
                        /\ evt_time' = t
                        /\ UNCHANGED <<batcher, added, last_time_fired, sleep_left,
                                       delays>>
                   ELSE /\ batcher' = BatcherAdd(batcher, e)
                        /\ added' = added \cup {e.id}
                        /\ last_time_fired' = IF t # NoTime THEN t ELSE last_time_fired
                        /\ UNCHANGED <<pc, event, evt_time, flush_then, sleep_left,
                                       delays>>
    /\ UNCHANGED <<config, hb_vars, backoff, inline>>

\* the iteration ends because the server closed the connection normally
ReceiveClose ==
    /\ pc = "recv"
    /\ pc' = "flush"
    /\ flush_then' = "end"
    /\ UNCHANGED <<config, files, problems, backoff, processed, stop, since_analysis,
                   last_time_fired, sleep_left, event, evt_time, inline, batcher,
                   budget, history_vars>>

\* the iteration raises ConnectionClosed: the connection dropped
ReceiveDrop ==
    /\ pc = "recv"
    /\ budget.failures > 0
    /\ SleepBackoff("ConnectionClosed")
    /\ UNCHANGED <<config, files, problems, backoff, processed, stop, since_analysis,
                   last_time_fired, flush_then, event, evt_time, inline, batcher,
                   wire, calls, since_call, written, added, completed>>

\* the sleep of an except clause is over: double the backoff, then
\* "if stop or limit == 0: break"
BackoffWake ==
    /\ pc = "backoff"
    /\ sleep_left = 0
    /\ backoff' = Min(backoff * 2, BackoffCeiling)
    /\ pc' = IF stop \/ limit = 0 THEN "done" ELSE "connect"
    /\ UNCHANGED <<config, files, problems, processed, stop, since_analysis,
                   last_time_fired, sleep_left, flush_then, event, evt_time, inline, batcher,
                   budget, history_vars>>

\* ------------------------------------------------------------------- time
TickTask(t) == [t EXCEPT !.left = Max(0, @ - 1)]

\* one second passes
Tick ==
    /\ since_analysis' = Min(since_analysis + 1, analysis_rate_seconds)
    /\ since_call' = Min(since_call + 1, analysis_rate_seconds)
    /\ sleep_left' = Max(0, sleep_left - 1)
    /\ batcher' = [batcher EXCEPT
            !._task = TickTask(@),
            !._immediate = [i \in 1..Len(@) |-> TickTask(@[i])]]
    /\ UNCHANGED <<config, files, problems, backoff, processed, stop, last_time_fired,
                   pc, flush_then, event, evt_time, inline, budget,
                   last_error, wire, calls, delays, written, added, completed>>

\* ------------------------------------------------------------ start of run
SeedEvent(tag) ==
    [id |-> 0, tag |-> tag, trigger_type |-> "error_log", time_fired |-> NoTime]
SeedRecord(tag, occurrence, result) ==
    [event |-> <<SeedEvent(tag)>>, occurrence |-> occurrence, result |-> result,
     error |-> FALSE, trigger_type |-> {"error_log"}]

\* problem directories left by earlier runs (or seeded by hand, as the tests
\* do): none, and two segments holding two patterns, one of which does not
\* compile, with occurrences in and out of order and a record without result
SeedDisks ==
    { << >>,
      << << SeedRecord("b", 1, << <<"data", ":", "b">> >>),
            SeedRecord("b", 2, NoResult),
            SeedRecord("a", 2, << <<"(", "a">> >>) >>,
         << SeedRecord("b", 3, << <<"data", ":", "b">> >>),
            SeedRecord("a", 1, << <<"(", "a">> >>) >> >> }

Limits == {NoLimit} \cup 0..MaxLimit

\* the state of monitor() at the line called at, the registry being loaded
MonitorState(seed, upstream, loaded, at) ==
    /\ files = OpenFile(seed)
    /\ problems = loaded
    /\ backoff = BackoffFloor
    /\ processed = 0
    /\ stop = FALSE
    /\ since_analysis \in 0..analysis_rate_seconds
    /\ last_time_fired = NoTime
    /\ pc = at
    /\ sleep_left = 0
    /\ flush_then = "end"
    /\ event = NoEvent
    /\ evt_time = NoTime
    /\ inline = << >>
    /\ batcher = [_events |-> << >>, _task |-> NoTask, _immediate |-> << >>]
    /\ budget = upstream
    /\ last_error = "none"
    /\ wire = << >>
    /\ calls = 0
    /\ since_call = analysis_rate_seconds
    /\ delays = << >>
    /\ written = << >>
    /\ added = {}
    /\ completed = {}

\* the state monitor() is in when it first reaches "while True"
InitMonitor(seed, upstream) ==
    MonitorState(seed, upstream, LoadProblems(OpenFile(seed)), "connect")

Init ==
    /\ batch_seconds \in {0, WindowSeconds}
    /\ analysis_rate_seconds \in {0, RateSeconds}
    /\ limit \in Limits
    /\ max_bytes = SegmentBytes
    /\ disk_room = Unlimited
    /\ probe = NoProbe
    /\ \E seed \in SeedDisks :
          InitMonitor(seed, [events |-> MaxEvents, failures |-> MaxFailures])

Next ==
    \/ ConnectOk
    \/ ConnectInvalidHandshake
    \/ ConnectError
    \/ AuthOk
    \/ \E first \in FirstMessages : AuthBegin(first)
    \/ \E reply \in AuthReplies \ {"auth_ok"} : AuthError(reply)
    \/ \E message \in Messages : Receive(message)
    \/ ReceiveClose
    \/ ReceiveDrop
    \/ FlushBegin
    \/ FlushCallbackResume
    \/ FlushGather
    \/ BackoffWake
    \/ TimerExpire
    \/ TimerCallbackResume
    \/ \E i \in 1..Len(batcher._immediate) : ImmediateStart(i)
    \/ \E i \in 1..Len(batcher._immediate) : ImmediateResume(i)
    \/ Tick

Spec == Init /\ [][Next]_vars

\* ------------------------------------------------- the logger on its own
\* max_bytes values: below one line, exactly two short lines less one byte,
\* the monitor's value, and room for several lines
LoggerMaxBytes == {SegmentBytes \div 4, SegmentBytes - 5, SegmentBytes, 2 * SegmentBytes}

\* records of the shapes handle_batch builds
SampleRecords ==
    { SeedRecord("a", 2, NoResult),
      [SeedRecord("a", 1, NoResult) EXCEPT !.error = TRUE],
      SeedRecord("b", 1, << <<"data", ":", "b">> >>) }

\* ProblemLogger(directory, max_bytes) on an empty directory
InitLogger ==
    /\ batch_seconds = 0
    /\ analysis_rate_seconds = 0
    /\ limit = NoLimit
    /\ max_bytes \in LoggerMaxBytes
    /\ disk_room = Unlimited
    /\ probe = NoProbe
    /\ InitMonitor(<< >>, [events |-> 0, failures |-> 0])

\* problem_logger.write(record)
Write(record) ==
    /\ Len(written) < MaxWrites
    /\ files' = LoggerWrite(files, record, max_bytes)
    /\ written' = Append(written, record)
    /\ UNCHANGED <<config, monitor_vars, batcher, budget,
                   last_error, wire, calls, since_call, delays, added, completed>>

NextLogger == \E record \in SampleRecords : Write(record)

SpecLogger == InitLogger /\ [][NextLogger]_vars

\* ------------------------------------------- the monitor under many failures
\* one trigger event and a server that fails up to ReconnectFailures attempts
InitReconnect ==
    /\ batch_seconds \in {0, WindowSeconds}
    /\ analysis_rate_seconds = RateSeconds
    /\ limit = NoLimit
    /\ max_bytes = SegmentBytes
    /\ disk_room = Unlimited
    /\ probe = NoProbe
    /\ InitMonitor(<< >>, [events |-> 1, failures |-> ReconnectFailures])

SpecReconnect == InitReconnect /\ [][Next]_vars

\* ------------------------------------------ the classification on its own
\* JSON values nested up to NestingDepth below the top
NestingDepth == 3
Atoms == {Null, Bool(TRUE), Bool(FALSE), Num(0), Num(1), Str(""), Str("x")}
Keys == {"error", "success", "other"}

\* the values built from those of vs by one more dict or list around them
Wrap(vs) ==
    { Dict(<< <<k, v>> >>) : k \in Keys, v \in vs }
    \cup { Dict(<< <<"other", v>>, <<"success", Bool(TRUE)>> >>) : v \in vs }
    \cup { List(<<v>>) : v \in vs }
    \cup { List(<<Str("x"), v>>) : v \in vs }

RECURSIVE Nested(_)
Nested(depth) ==
    IF depth = 0 THEN Atoms \cup {Dict(<< >>), List(<< >>)}
    ELSE Nested(depth - 1) \cup Wrap(Nested(depth - 1))

Levels == {Null, Bool(TRUE), Num(0), Num(39), Num(40), Num(50), Str("error"),
           Str("ERROR"), Str("Critical"), Str("warning"), Str("40"), Str("")}

\* every kind of event with every level, state and subtype, each also as a
\* message that is no event, and the traces over the nested values
WellFormed ==
    LET events == { LogEvent(level, NoTime) : level \in Levels }
                  \cup { SupervisorEvent(subtype, level) :
                            subtype \in {"addon", "core", ""}, level \in Levels }
                  \cup { StateChanged(state) : state \in {"unavailable", "Unavailable", "on", ""} }
                  \cup { Trace(data, NoTime) : data \in Nested(NestingDepth) }
                  \cup { Plain, [LogEvent(Num(40), NoTime) EXCEPT !.level = Num(50),
                                                               !.event_type = "call_service"] }
    IN  events
        \cup { [m EXCEPT !.type = type] : m \in events \ { Trace(data, NoTime) : data \in Nested(NestingDepth) },
                                            type \in {"result", ""} }
        \cup { Misshapen(LogEvent(Num(40), NoTime), "event_missing") }

InitClassify ==
    /\ batch_seconds = 0
    /\ analysis_rate_seconds = 0
    /\ limit = NoLimit
    /\ max_bytes = SegmentBytes
    /\ disk_room = Unlimited
    /\ \E message \in WellFormed \cup Malformed :
          probe = [on |-> "message", message |-> message, walked |-> FALSE,
                   failure |-> FALSE, classified |-> FALSE, trigger |-> "none",
                   handed |-> FALSE]
    /\ InitMonitor(<< >>, [events |-> 0, failures |-> 0])

\* _contains_failure(edata) on the message's data member
WalkData ==
    /\ probe.on = "message"
    /\ ~probe.walked
    /\ probe' = [probe EXCEPT !.walked = TRUE,
                              !.failure = _contains_failure(probe.message.data)]
    /\ UNCHANGED <<batch_seconds, analysis_rate_seconds, limit, max_bytes, disk_room,
                   files, monitor_vars, batcher, budget, history_vars>>

\* one turn of the message loop up to batcher.add or "continue"
ClassifyMessage ==
    /\ probe.on = "message"
    /\ ~probe.classified
    /\ probe' = [probe EXCEPT !.classified = TRUE,
                              !.trigger = Classify(probe.message),
                              !.handed = Classify(probe.message) \notin {"none", "raise"}]
    /\ UNCHANGED <<batch_seconds, analysis_rate_seconds, limit, max_bytes, disk_room,
                   files, monitor_vars, batcher, budget, history_vars>>

NextClassify == WalkData \/ ClassifyMessage

SpecClassify == InitClassify /\ [][NextClassify]_vars

\* --------------------------------------------------- the start on its own
MaxSegments == 2
MaxLines == 2

\* lines found in a segment: records of earlier runs, and lines that are
\* blank, cut short by a crash, not JSON, or JSON that is no object
SeedLineKinds ==
    { SeedRecord("b", 1, << <<"data", ":", "b">> >>),
      SeedRecord("b", 2, NoResult),
      SeedRecord("a", 3, << <<"(", "a">> >>),
      [text |-> "blank"], [text |-> "partial"], [text |-> "not_json"],
      [text |-> "array"] }

SeqsUpTo(S, n) == UNION { [1..k -> S] : k \in 0..n }

Directories == SeqsUpTo(SeqsUpTo(SeedLineKinds, MaxLines), MaxSegments)

\* monitor() after "problem_logger = ProblemLogger(...)"
InitRehydrate ==
    /\ batch_seconds = 0
    /\ analysis_rate_seconds = 0
    /\ limit = NoLimit
    /\ max_bytes = SegmentBytes
    /\ disk_room = Unlimited
    /\ probe = NoProbe
    /\ \E seed \in Directories :
          MonitorState(seed, [events |-> 0, failures |-> 0], << >>, "start")

\* "problems = _load_problems(problem_dir)" and the lines up to "while True";
\* an exception raised by the scan leaves monitor()
Rehydrate ==
    /\ pc = "start"
    /\ LET loaded == LoadProblems(files)
       IN  IF IsRaised(loaded)
           THEN pc' = "failed" /\ last_error' = "Exception" /\ UNCHANGED problems
           ELSE pc' = "connect" /\ problems' = loaded /\ UNCHANGED last_error
    /\ UNCHANGED <<config, files, backoff, processed, stop, since_analysis,
                   last_time_fired, sleep_left, flush_then, event, evt_time, inline,
                   batcher, budget, wire, calls, since_call, delays, written, added,
                   completed>>

SpecRehydrate == InitRehydrate /\ [][Rehydrate]_vars

\* --------------------------------------------- the monitor on a full disk
\* the disk has room for DiskRoom more lines, or for none
DiskRoom == 1

InitWriteFailure ==
    /\ batch_seconds \in {0, WindowSeconds}
    /\ analysis_rate_seconds \in {0, RateSeconds}
    /\ limit = NoLimit
    /\ max_bytes = SegmentBytes
    /\ disk_room \in {0, DiskRoom}
    /\ probe = NoProbe
    /\ InitMonitor(<< >>, [events |-> MaxEvents, failures |-> MaxFailures])

SpecWriteFailure == InitWriteFailure /\ [][Next]_vars

\* ------------------------------------------ the dashboard beside the logger
\* In this part probe holds what the directory model needs beyond files:
\* mine, the index in files of the segment the monitor's ProblemLogger has
\* open, and unlinked, the indices of the segments whose directory entry was
\* removed (files keeps their content, which the open handle still sees).
MaxFiles == 4

\* records the monitor writes while the dashboard is in use
DashboardRecords ==
    { SeedRecord("a", 1, << <<"a">> >>), SeedRecord("a", 2, NoResult),
      SeedRecord("b", 1, << <<"data", ":", "b">> >>), SeedRecord("b", 2, NoResult) }

\* sorted(directory.glob("problems_*.jsonl")), the lines of all of them
RECURSIVE ListedLines(_, _, _)
ListedLines(fs, unlinked, k) ==
    IF k > Len(fs) THEN << >>
    ELSE (IF k \in unlinked THEN << >> ELSE fs[k]) \o ListedLines(fs, unlinked, k + 1)

IndexOfKey(mapping, key) ==
    LET hits == {i \in 1..Len(mapping) : mapping[i].key = key}
    IN  IF hits = {} THEN 0 ELSE CHOOSE i \in hits : TRUE

\* devux._load_problems: the entries in insertion order, each with the event
\* and the occurrence of the last record attributed to it
RECURSIVE DashboardLoad(_, _)
DashboardLoad(lines, mapping) ==
    IF lines = << >> THEN mapping
    ELSE LET record == Head(lines)
             event_json == EventCtxTokens(record.event, TRUE)
             hits == {i \in 1..Len(mapping) : Search(mapping[i].pattern, event_json)}
             at == IF record.result # NoResult THEN IndexOfKey(mapping, record.result[1])
                   ELSE IF hits = {} THEN 0
                   ELSE CHOOSE i \in hits : \A j \in hits : i <= j
         IN  DashboardLoad(Tail(lines),
                 IF at # 0
                 THEN [mapping EXCEPT ![at].occurrences = record.occurrence,
                                      ![at].last = record.event]
                 ELSE IF record.result # NoResult
                 THEN Append(mapping, [key |-> record.result[1],
                                       pattern |-> CompilePattern(record.result[1]),
                                       occurrences |-> record.occurrence,
                                       last |-> record.event])
                 ELSE mapping)

\* the loop body of delete_problem: the lines of one segment that stay
KeptLines(lines, pattern) ==
    SelectSeq(lines, LAMBDA record : ~Search(pattern, EventCtxTokens(record.event, TRUE)))

\* delete_problem(directory, key): segments that lose lines are rewritten,
\* segments that lose all their lines are unlinked
DeletedSegments(fs, unlinked, pattern) ==
    [k \in 1..Len(fs) |->
        IF k \in unlinked \/ KeptLines(fs[k], pattern) = << >> THEN fs[k]
        ELSE KeptLines(fs[k], pattern)]

DeletedUnlinked(fs, unlinked, pattern) ==
    unlinked \cup {k \in 1..Len(fs) : /\ k \notin unlinked
                                      /\ fs[k] # << >>
                                      /\ KeptLines(fs[k], pattern) = << >>}

InitDashboard ==
    /\ batch_seconds = 0
    /\ analysis_rate_seconds = 0
    /\ limit = NoLimit
    /\ max_bytes = SegmentBytes
    /\ disk_room = Unlimited
    /\ \E seed \in SeedDisks :
          /\ InitMonitor(seed, [events |-> 0, failures |-> 0])
          /\ probe = [on |-> "dashboard", mine |-> Len(seed) + 1, unlinked |-> {}]

\* problem_logger.write(record) of the running monitor, on its open segment
MonitorWrite(record) ==
    /\ probe.on = "dashboard"
    /\ Len(written) < MaxWrites
    /\ Len(files) < MaxFiles
    /\ LET rotate == FileSize(files[probe.mine]) + JsonLineLen(record) + 1 > max_bytes
       IN  /\ files' = IF rotate THEN Append(files, <<record>>)
                       ELSE [files EXCEPT ![probe.mine] = Append(@, record)]
           /\ probe' = [probe EXCEPT !.mine = IF rotate THEN Len(files) + 1 ELSE @]
    /\ written' = Append(written, record)
    /\ UNCHANGED <<batch_seconds, analysis_rate_seconds, limit, max_bytes, disk_room,
                   monitor_vars, batcher, budget,
                   last_error, wire, calls, since_call, delays, added, completed>>

\* delete_problem(directory, key) for a key the dashboard lists
DeleteProblem(key) ==
    /\ probe.on = "dashboard"
    /\ IndexOfKey(DashboardLoad(ListedLines(files, probe.unlinked, 1), << >>), key) # 0
    /\ files' = DeletedSegments(files, probe.unlinked, CompilePattern(key))
    /\ probe' = [probe EXCEPT
            !.unlinked = DeletedUnlinked(files, probe.unlinked, CompilePattern(key))]
    /\ UNCHANGED <<batch_seconds, analysis_rate_seconds, limit, max_bytes, disk_room,
                   monitor_vars, batcher, budget, history_vars>>

\* reanalyze_problem(directory, key, llm=...) for a key the dashboard lists;
\* outcome is what the backend call yields
ReanalyzeProblem(key, outcome) ==
    /\ probe.on = "dashboard"
    /\ Len(files) < MaxFiles
    /\ LET mapping == DashboardLoad(ListedLines(files, probe.unlinked, 1), << >>)
           at == IndexOfKey(mapping, key)
       IN  /\ at # 0
           /\ IF outcome = << >>
              THEN UNCHANGED <<files, probe>>
              ELSE /\ files' = Append(DeletedSegments(files, probe.unlinked,
                                                      CompilePattern(key)),
                                      << [event |-> mapping[at].last,
                                          occurrence |-> mapping[at].occurrences,
                                          result |-> outcome,
                                          error |-> FALSE,
                                          trigger_type |-> {}] >>)
                   /\ probe' = [probe EXCEPT
                          !.unlinked = DeletedUnlinked(files, probe.unlinked,
                                                       CompilePattern(key))]
    /\ UNCHANGED <<batch_seconds, analysis_rate_seconds, limit, max_bytes, disk_room,
                   monitor_vars, batcher, budget, history_vars>>

NextDashboard ==
    \/ \E record \in DashboardRecords : MonitorWrite(record)
    \/ \E key \in Patterns : DeleteProblem(key)
    \/ \E key \in Patterns, outcome \in BackendOutcomes : ReanalyzeProblem(key, outcome)

SpecDashboard == InitDashboard /\ [][NextDashboard]_vars

\* --------------------------------------------- the monitor with a fair timer
\* time passes and the event loop runs the batcher's timer task when it is
\* due; nothing is assumed about the server or about later flush() calls
InitTimer ==
    /\ batch_seconds \in {0, WindowSeconds}
    /\ analysis_rate_seconds \in {0, RateSeconds}
    /\ limit = NoLimit
    /\ max_bytes = SegmentBytes
    /\ disk_room = Unlimited
    /\ probe = NoProbe
    /\ InitMonitor(<< >>, [events |-> MaxEvents, failures |-> MaxFailures])

SpecTimer ==
    /\ InitTimer
    /\ [][Next]_vars
    /\ WF_vars(Tick)
    /\ WF_vars(TimerExpire)
    /\ WF_vars(TimerCallbackResume)

\* ------------------------------------------------- the names of the segments
\* ProblemLogger instances on one directory: every _open_file takes the clock,
\* truncated to the second, and the counter of the instance
MaxNames == 12
MaxSeconds == 1

\* the decimal digits of n, as character codes
RECURSIVE CounterText(_)
CounterText(n) ==
    IF n < 10 THEN <<48 + n>> ELSE Append(CounterText(n \div 10), 48 + (n % 10))

\* f"problems_{timestamp}_{self._counter}.jsonl" from the timestamp on: the
\* timestamp has a fixed width and compares as its number; the counter is
\* followed by the "." (code 46) of the suffix
SegmentName(timestamp, counter) == <<timestamp>> \o CounterText(counter) \o <<46>>

\* str < str: the first place where the two names differ decides
RECURSIVE NameLess(_, _)
NameLess(a, b) ==
    IF b = << >> THEN FALSE
    ELSE IF a = << >> THEN TRUE
    ELSE IF Head(a) # Head(b) THEN Head(a) < Head(b)
    ELSE NameLess(Tail(a), Tail(b))

\* ProblemLogger(directory) at the second 0
InitNames ==
    /\ batch_seconds = 0
    /\ analysis_rate_seconds = 0
    /\ limit = NoLimit
    /\ max_bytes = SegmentBytes
    /\ disk_room = Unlimited
    /\ probe = [on |-> "names", now |-> 0, _counter |-> 1,
                opened |-> <<SegmentName(0, 0)>>]
    /\ InitMonitor(<< >>, [events |-> 0, failures |-> 0])

names_fixed == <<batch_seconds, analysis_rate_seconds, limit, max_bytes, disk_room,
                 files, monitor_vars, batcher, budget, history_vars>>

\* ProblemLogger._open_file at a rotation
Rotate ==
    /\ probe.on = "names"
    /\ Len(probe.opened) < MaxNames
    /\ probe' = [probe EXCEPT
                    !.opened = Append(@, SegmentName(probe.now, probe._counter)),
                    !._counter = @ + 1]
    /\ UNCHANGED names_fixed

\* ProblemLogger.__init__ of another instance on the directory: the process
\* started again, or reanalyze_problem made its own logger
NewLogger ==
    /\ probe.on = "names"
    /\ Len(probe.opened) < MaxNames
    /\ probe' = [probe EXCEPT
                    !.opened = Append(@, SegmentName(probe.now, 0)),
                    !._counter = 1]
    /\ UNCHANGED names_fixed

\* the clock reaches the next second
NextSecond ==
    /\ probe.on = "names"
    /\ probe.now < MaxSeconds
    /\ probe' = [probe EXCEPT !.now = @ + 1]
    /\ UNCHANGED names_fixed

NextNames == Rotate \/ NewLogger \/ NextSecond

SpecNames == InitNames /\ [][NextNames]_vars

\* --------------------------------------------------------- AnalysisRunner
\* an AnalysisRunner with an injected clock, over a directory of incident
\* files that grows; probe holds its fields and the history of its passes
MaxIncidents == 2       \* incident files that appear
MaxRuns == 7            \* run_once calls in one run
MaxNow == 2             \* how far the clock is moved second by second
RunnerRateSeconds == 3  \* the non-zero rate_seconds tried

MaxAttempts == 5            \* if attempts >= 5
RunnerBackoffFloor == 1     \* self._backoff = 1.0
RunnerBackoffCeiling == 60  \* min(self._backoff * 2, 60)

Incidents == 1..MaxIncidents

\* the tag of the one event of incident i; incidents 1 and 2 look alike
IncidentTag(i) == IF i <= 2 THEN "a" ELSE "b"

\* json.dumps(bundle.events, sort_keys=True) for the incident
ContextText(i) == <<"[", "{", "data", ":", " ", IncidentTag(i), "}", "]">>

\* what _analyze meets on an incident: a context without events, a failure
\* of build_context, llm.generate or parse_result, or a parsed result with
\* its recurrence_pattern (one that validate_pattern accepts, one it rejects);
\* "unsaved" is a run in which PatternStore._save raises OSError, the file
\* recurring.json not being writable at that moment
RunnerPatterns == { <<"data", ".", ".", "a">>, <<"a">> }
UnsavedPatterns == { <<"data", ".", ".", "b">> }
RunnerOutcomes ==
    { <<"empty">>, <<"raises">> }
        \cup { <<"result", p>> : p \in RunnerPatterns }
        \cup { <<"unsaved", p>> : p \in UnsavedPatterns }

\* PatternStore.match: the first record whose pattern is found, 0 for None;
\* a pattern that does not compile is passed over
StoreMatch(records, text) ==
    LET hits == {k \in 1..Len(records) :
                    /\ Compiles(records[k].pattern)
                    /\ Search([text |-> records[k].pattern, literal |-> FALSE,
                               dotall |-> FALSE], text)}
    IN  IF hits = {} THEN 0 ELSE CHOOSE k \in hits : \A j \in hits : k <= j

\* PatternStore.update, were last_occurred left as it is
StoreUpdateKeepsDate(records, k, occurred) ==
    [records EXCEPT ![k] = [@ EXCEPT !.occurrences = @ + 1]]

\* PatternStore.update
StoreUpdate(records, k, occurred) ==
    [records EXCEPT ![k] = [@ EXCEPT !.occurrences = @ + 1, !.last_occurred = occurred]]

\* PatternStore.add
StoreAdd(records, pattern, occurred) ==
    LET same == {k \in 1..Len(records) : records[k].pattern = pattern}
    IN  IF same # {}
        THEN StoreUpdate(records, CHOOSE k \in same : \A j \in same : k <= j, occurred)
        ELSE Append(records, [pattern |-> pattern, occurrences |-> 1,
                              last_occurred |-> occurred])

\* AnalysisRunner._analyze(inc) on the runner r: the runner it leaves, and
\* whether it raised
_analyze(r, i, outcome) ==
    LET tried == [r EXCEPT !.tries[i] = @ + 1]
        \* build_context has read the lines the file holds at this moment
        read == [tried EXCEPT !.covered[i] = r.lines[i]]
        matched == StoreMatch(r.patterns, ContextText(i))
    IN  IF outcome[1] = "empty"
        THEN [runner |-> [tried EXCEPT !.no_events = @ \cup {i}], raised |-> FALSE]
        ELSE IF matched # 0
        THEN \* update() changes the record, then _save() runs
             IF outcome[1] = "unsaved"
             THEN [runner |-> [read EXCEPT !.patterns = StoreUpdate(@, matched, i),
                                           !.raised[i] = @ + 1],
                   raised |-> TRUE]
             ELSE [runner |-> [read EXCEPT !.patterns = StoreUpdate(@, matched, i)],
                   raised |-> FALSE]
        ELSE IF outcome[1] = "raises"
        THEN [runner |-> [tried EXCEPT !.llm_calls = @ + 1, !.raised[i] = @ + 1],
              raised |-> TRUE]
        ELSE IF outcome[1] = "unsaved" /\ validate_pattern(outcome[2])
        THEN \* the record is written and the pattern added before _save() raises
             [runner |-> [read EXCEPT !.llm_calls = @ + 1,
                                      !.records = Append(@, i),
                                      !.patterns = StoreAdd(@, outcome[2], i),
                                      !.raised[i] = @ + 1],
              raised |-> TRUE]
        ELSE [runner |-> [read EXCEPT
                              !.llm_calls = @ + 1,
                              !.records = Append(@, i),
                              !.patterns = IF validate_pattern(outcome[2])
                                           THEN StoreAdd(@, outcome[2], i) ELSE @],
              raised |-> FALSE]

\* min(self._backoff * 2, 60), were the cap left out
NextBackoffUncapped(b) == b * 2

\* min(self._backoff * 2, 60)
NextBackoff(b) == Min(b * 2, RunnerBackoffCeiling)

\* the loop, were an incident that has used up its attempts to end the pass
\* instead of being marked processed
RECURSIVE RunLoopBlocked(_, _, _)
RunLoopBlocked(r, i, outcomes) ==
    IF i > r.listed
    THEN [r EXCEPT !._next_run = r.now + r.rate_seconds,
                   !._backoff = RunnerBackoffFloor]
    ELSE IF i \in r._processed
    THEN RunLoopBlocked(r, i + 1, outcomes)
    ELSE IF r._attempts[i] >= MaxAttempts
    THEN [r EXCEPT !._next_run = r.now + r._backoff,
                   !._backoff = NextBackoff(r._backoff)]
    ELSE LET after == _analyze(r, i, outcomes[i])
         IN  IF after.raised
             THEN [after.runner EXCEPT !._attempts[i] = r._attempts[i] + 1,
                                       !._next_run = r.now + r._backoff,
                                       !._backoff = NextBackoff(r._backoff)]
             ELSE RunLoopBlocked([after.runner EXCEPT !._processed = @ \cup {i},
                                                      !._attempts[i] = 0],
                                 i + 1, outcomes)

\* "for inc in incidents" from incident i on, with the outcome each incident
\* would meet, and what follows the loop
RECURSIVE RunLoop(_, _, _)
RunLoop(r, i, outcomes) ==
    IF i > r.listed
    THEN [r EXCEPT !._next_run = r.now + r.rate_seconds,
                   !._backoff = RunnerBackoffFloor]
    ELSE IF i \in r._processed
    THEN RunLoop(r, i + 1, outcomes)
    ELSE IF r._attempts[i] >= MaxAttempts
    THEN RunLoop([r EXCEPT !._processed = @ \cup {i}, !._attempts[i] = 0],
                 i + 1, outcomes)
    ELSE LET after == _analyze(r, i, outcomes[i])
         IN  IF after.raised
             THEN [after.runner EXCEPT !._attempts[i] = r._attempts[i] + 1,
                                       !._next_run = r.now + r._backoff,
                                       !._backoff = NextBackoff(r._backoff)]
             ELSE RunLoop([after.runner EXCEPT !._processed = @ \cup {i},
                                               !._attempts[i] = 0],
                          i + 1, outcomes)

\* "if now < self._next_run", were the comparison the other way round
NotDueSwapped(r) == r._next_run < r.now

\* "if now < self._next_run: return"
NotDue(r) == r.now < r._next_run

\* AnalysisRunner(incident_dir, analysis_dir, llm, rate_seconds=..., now_fn=...)
InitRunner ==
    /\ batch_seconds = 0
    /\ analysis_rate_seconds = 0
    /\ limit = NoLimit
    /\ max_bytes = SegmentBytes
    /\ disk_room = Unlimited
    /\ \E rate \in {0, RunnerRateSeconds}, present \in 0..1 :
          probe = [on |-> "runner", rate_seconds |-> rate, now |-> 0,
                   _next_run |-> 0, _backoff |-> RunnerBackoffFloor,
                   _processed |-> {}, _attempts |-> [i \in Incidents |-> 0],
                   patterns |-> << >>, listed |-> present,
                   records |-> << >>, llm_calls |-> 0, runs |-> 0, no_events |-> {},
                   tries |-> [i \in Incidents |-> 0],
                   raised |-> [i \in Incidents |-> 0],
                   lines |-> [i \in Incidents |-> 1],
                   covered |-> [i \in Incidents |-> 0]]
    /\ InitMonitor(<< >>, [events |-> 0, failures |-> 0])

\* AnalysisRunner.run_once
run_once(outcomes) ==
    /\ probe.on = "runner"
    /\ probe.runs < MaxRuns
    /\ probe' = IF NotDue(probe)
                THEN [probe EXCEPT !.runs = @ + 1]
                ELSE RunLoop([probe EXCEPT !.runs = @ + 1], 1, outcomes)
    /\ UNCHANGED names_fixed

\* another incident file appears in the directory, sorted after the others
NewIncident ==
    /\ probe.on = "runner"
    /\ probe.listed < MaxIncidents
    /\ probe' = [probe EXCEPT !.listed = @ + 1]
    /\ UNCHANGED names_fixed

\* the clock moves on by a second
RunnerTick ==
    /\ probe.on = "runner"
    /\ probe.now < MaxNow
    /\ probe' = [probe EXCEPT !.now = @ + 1]
    /\ UNCHANGED names_fixed

\* run_forever: await asyncio.sleep(max(self._next_run - self._now(), 0))
RunnerSleep ==
    /\ probe.on = "runner"
    /\ probe.now < probe._next_run
    /\ probe' = [probe EXCEPT !.now = probe._next_run]
    /\ UNCHANGED names_fixed

NextRunner ==
    \/ \E outcomes \in [Incidents -> RunnerOutcomes] : run_once(outcomes)
    \/ NewIncident
    \/ RunnerTick
    \/ RunnerSleep

SpecRunner == InitRunner /\ [][NextRunner]_vars

\* ------------------------------------------------- the runner left to run
\* one turn of run_forever: run_once is called when the sleep that followed
\* the previous call is over, that is, when it is due
Pass(outcomes) ==
    /\ ~NotDue(probe)
    /\ run_once(outcomes)

NextRunForever ==
    \/ \E outcomes \in [Incidents -> RunnerOutcomes] : Pass(outcomes)
    \/ NewIncident
    \/ RunnerTick
    \/ RunnerSleep

\* run_forever never stops calling run_once, and its sleep ends
SpecRunForever ==
    /\ InitRunner
    /\ [][NextRunForever]_vars
    /\ WF_vars(\E outcomes \in [Incidents -> RunnerOutcomes] : Pass(outcomes))
    /\ WF_vars(RunnerSleep)

\* --------------------------------------------- observe beside the runner
\* In this part probe.lines[i] is the number of events observe has written to
\* the i-th incident segment, probe._file the segment its IncidentLogger has
\* open and probe.covered[i] the number of lines of segment i that _analyze
\* had before it the last time it matched or analysed the segment.
\* the events a segment takes before max_bytes makes the logger rotate
SegmentEvents == 2

\* main._run: the runner and observe start on a directory without events
InitPipeline ==
    /\ batch_seconds = 0
    /\ analysis_rate_seconds = 0
    /\ limit = NoLimit
    /\ max_bytes = SegmentBytes
    /\ disk_room = Unlimited
    /\ \E rate \in {0, RunnerRateSeconds} :
          probe = [on |-> "runner", rate_seconds |-> rate, now |-> 0,
                   _next_run |-> 0, _backoff |-> RunnerBackoffFloor,
                   _processed |-> {}, _attempts |-> [i \in Incidents |-> 0],
                   patterns |-> << >>, listed |-> 0,
                   records |-> << >>, llm_calls |-> 0, runs |-> 0, no_events |-> {},
                   tries |-> [i \in Incidents |-> 0],
                   raised |-> [i \in Incidents |-> 0],
                   lines |-> [i \in Incidents |-> 0],
                   covered |-> [i \in Incidents |-> 0],
                   _file |-> 1]
    /\ InitMonitor(<< >>, [events |-> 0, failures |-> 0])

\* IncidentLogger.write(event) in observe: the line goes to the open segment,
\* or to a new one when the open one is full; list_incidents lists every
\* segment that holds an event
ObserveWrite ==
    /\ probe.on = "runner"
    /\ LET full == probe.lines[probe._file] + 1 > SegmentEvents
           file == IF full THEN probe._file + 1 ELSE probe._file
       IN  /\ file <= MaxIncidents
           /\ probe' = [probe EXCEPT !._file = file,
                                     !.lines[file] = @ + 1,
                                     !.listed = file]
    /\ UNCHANGED names_fixed

\* what _analyze can meet on a segment written by observe: every line is an
\* event, so the bundle is never empty
PipelineOutcomes == RunnerOutcomes \ {<<"empty">>}

NextPipeline ==
    \/ \E outcomes \in [Incidents -> PipelineOutcomes] : Pass(outcomes)
    \/ ObserveWrite
    \/ RunnerTick
    \/ RunnerSleep

SpecPipeline == InitPipeline /\ [][NextPipeline]_vars

\* ============================================================== properties
\* callback invocations of the batcher that have begun and not yet ended
ActiveCallbacks ==
    (IF batcher._task.state = "callback" THEN 1 ELSE 0)
    + Cardinality({i \in 1..Len(batcher._immediate) :
                      batcher._immediate[i].state = "sleeping"})
    + (IF pc = "flush_callback" THEN 1 ELSE 0)

\* the monitor task is inside "await batcher.flush()"
InFlush == pc \in {"flush", "flush_callback", "flush_gather"}

\* C1: a batch whose serialization matches a fingerprint that is registered
\* when the batch is recorded is recorded with that fingerprint's previous
\* counter plus one, without a result, and no backend call is made for it;
\* hence the backend is called at most once per fingerprint lineage.
C1_RecurrenceWithoutBackend ==
    [][Len(written') = Len(written) + 1 =>
          LET record == written'[Len(written')]
              matched == Match(problems, record.event)
          IN  matched # 0 =>
                  /\ record.occurrence = problems[matched].count + 1
                  /\ record.result = NoResult
                  /\ calls' = calls]_vars

\* C2: at most one invocation of the batcher's callback is in progress at any
\* time, for every window value, zero included.
C2_OneCallbackAtATime == ActiveCallbacks <= 1

\* C3: with analysis_rate_seconds = R > 0, a call of llm.generate comes at
\* least R after the call before it, whether that one succeeded or failed.
C3_CallsSeparatedByRate ==
    [][(calls' = calls + 1 /\ calls > 0) => since_call >= analysis_rate_seconds]_vars

\* C4: when flush() returns, every event passed to add() before the call has
\* been handed to a callback invocation that ran to completion.
C4_FlushCompletesEverything ==
    [][(InFlush /\ ~InFlush') => added \subseteq completed']_vars

C6_FailedAnalysisLeavesProblemNew ==
    [][(calls' = calls + 1 /\ written'[Len(written')].error) =>
          LET record == written'[Len(written')]
          IN  /\ record.occurrence = 1
              /\ record.result = NoResult
              /\ problems' = problems
              /\ delays' = delays /\ last_error' = last_error
              /\ Match(problems', record.event) = 0]_vars

\* the lines the segments held when monitor started
SeedLines == SubSeq(AllLines(files), 1, Len(AllLines(files)) - Len(written))

\* the distinct recurrence_pattern texts among lines
PatternTexts(lines) ==
    {lines[k].result[1] : k \in {n \in 1..Len(lines) : lines[n].result # NoResult}}

\* the largest occurrence recorded together with the pattern text
MaxOccurrence(lines, text) ==
    LET occs == {lines[k].occurrence :
                    k \in {n \in 1..Len(lines) : lines[n].result = <<text>>}}
    IN  CHOOSE m \in occs : \A n \in occs : m >= n

\* the batch, in either serialization, contains the pattern text
Matches(text, events) ==
    \/ Search(CompilePattern(text), EventCtxTokens(events, TRUE))
    \/ Search(CompilePattern(text), EventCtxTokens(events, FALSE))

\* C7: at startup the registry holds one fingerprint per distinct pattern text
\* of the existing records, its counter the maximum occurrence recorded with
\* that text; the first batch after startup that matches such a fingerprint is
\* recorded with that maximum plus one, without result, with no backend call.
C7_RehydratedCounters ==
    /\ [](written = << >> =>
            /\ Len(problems) = Cardinality(PatternTexts(SeedLines))
            /\ \A i \in 1..Len(problems) :
                  /\ problems[i].pattern.text \in PatternTexts(SeedLines)
                  /\ problems[i].count = MaxOccurrence(SeedLines, problems[i].pattern.text))
    /\ [][Len(written') = Len(written) + 1 =>
            LET record == written'[Len(written')]
            IN  \A text \in PatternTexts(SeedLines) :
                    (/\ Matches(text, record.event)
                     /\ \A k \in 1..Len(written) : ~Matches(text, written[k].event))
                    => /\ record.occurrence = MaxOccurrence(SeedLines, text) + 1
                       /\ record.result = NoResult
                       /\ ~record.error
                       /\ calls' = calls]_vars

\* a batch matching a rehydrated fingerprint has been recorded after a batch
\* that matched none
C7_Witness ==
    /\ Len(written) = 2
    /\ PatternTexts(SeedLines) # {}
    /\ \A text \in PatternTexts(SeedLines) : ~Matches(text, written[1].event)
    /\ \E text \in PatternTexts(SeedLines) :
          /\ Matches(text, written[2].event)
          /\ written[2].occurrence = MaxOccurrence(SeedLines, text) + 1

\* C8: after any sequence of write() calls with any max_bytes the lines of all
\* segments taken together are the records written, each once and in order,
\* and a write starts a new segment exactly when the line and its newline
\* would take the current segment beyond max_bytes.
C8_RotationKeepsEveryRecord ==
    /\ [](AllLines(files) = written)
    /\ [][written' # written =>
            LET line == written'[Len(written')]
                exceeds == Tell(files) + JsonLineLen(line) + 1 > max_bytes
            IN  /\ Len(files') = (IF exceeds THEN Len(files) + 1 ELSE Len(files))
                /\ \A k \in 1..(Len(files') - 1) :
                      files'[k] = (IF k <= Len(files) THEN files[k] ELSE << >>)
                /\ files'[Len(files')] =
                      Append(IF exceeds THEN << >> ELSE files[Len(files)], line)]_vars

\* MaxWrites records were written, a rotation happened once the segment was
\* exactly full, and one segment holds more than one line
C8_Witness ==
    /\ Len(written) = MaxWrites
    /\ Len(files) > 1
    /\ \E k \in 1..(Len(files) - 1) :
          Len(files[k]) > 1 /\ FileSize(files[k]) + JsonLineLen(files[k + 1][1]) = max_bytes

\* C9: every failed attempt (invalid handshake, drop, authentication error,
\* decode failure) is followed by a sleep of the current backoff; the delays of
\* consecutive failures double from 1 up to the cap of 30; and no such error
\* ends monitor.
C9_BackoffAfterEveryFailure ==
    /\ [][budget'.failures < budget.failures =>
            /\ pc' = "backoff"
            /\ sleep_left' = backoff
            /\ delays' = Append(delays, backoff)]_vars
    /\ [](\A k \in 1..Len(delays) :
            delays[k] = (IF k = 1 THEN BackoffFloor
                         ELSE IF delays[k] = BackoffFloor THEN BackoffFloor
                         ELSE Min(2 * delays[k - 1], BackoffCeiling)))
    /\ [][(pc = "backoff" /\ pc' = "done") => (stop \/ limit = 0)]_vars

\* C10: the sleep requested when an authenticated and subscribed connection
\* drops is the floor, and after a graceful close the backoff is the floor.
C10_BackoffResetAfterSuccess ==
    [][/\ (pc = "recv" /\ last_error' = "ConnectionClosed"
              /\ budget'.failures < budget.failures)
          => (pc' = "backoff" /\ sleep_left' = BackoffFloor)
       /\ (InFlush /\ pc' = "connect") => backoff' = BackoffFloor]_vars

\* C11, read literally: with limit = N >= 1 monitor has accepted exactly N
\* trigger events when it returns, and never more; with limit = None it never
\* returns.
C11_CapCountsEvents ==
    /\ limit >= 1 => /\ Cardinality(added) <= limit
                     /\ pc = "done" => Cardinality(added) = limit
    /\ limit = NoLimit => pc # "done"

\* C11, the cap counting batches: with limit = N >= 1, processed is the number
\* of records written, stop is set exactly when it has reached N, and monitor
\* returns only with stop set; with limit = None stop is never set and monitor
\* never returns.
C11_CapCountsBatches ==
    /\ limit >= 1 => /\ processed = Len(written)
                     /\ stop <=> processed >= limit
                     /\ pc = "done" => stop
    /\ limit = NoLimit => (~stop /\ pc # "done")

\* monitor returned on limit = 1 after accepting two trigger events that made
\* one batch and one record
C11_Witness ==
    /\ limit = 1
    /\ pc = "done"
    /\ Cardinality(added) = 2
    /\ Len(written) = 1 /\ Len(written[1].event) = 2

\* C12: with limit = 0 monitor hands no message to the batcher, writes no
\* record and makes no backend call, and a failed attempt (connection error,
\* authentication failure, invalid handshake) is not followed by another one.
C12_LimitZeroOnlyConnects ==
    /\ [](limit = 0 => (added = {} /\ written = << >> /\ calls = 0))
    /\ [][(limit = 0 /\ budget'.failures < budget.failures) => pc' # "connect"]_vars
    /\ [][(limit = 0 /\ pc = "backoff" /\ pc' # "backoff") => pc' = "done"]_vars

\* the number of header-based auth messages (no token) among the messages sent
HeaderAuthsSent == Cardinality({k \in 1..Len(wire) : wire[k] = Sent("auth_header")})

\* C13: when the token auth message is not answered with auth_ok,
\* _authenticate fails only after it has sent the header-based auth message,
\* once; the failure is then followed by the backoff sleep.
C13_HeaderFallbackBeforeFailure ==
    /\ [][(/\ pc \in {"auth", "auth_reply"}
           /\ wire # << >>
           /\ budget'.failures < budget.failures)
          => (HeaderAuthsSent = 1 /\ pc' = "backoff" /\ sleep_left' = backoff)]_vars
    /\ [](HeaderAuthsSent <= 1)

\* C14: a malformed event message received while the loop is running is
\* classified as no trigger: the monitor stays in the message loop of the
\* same connection, no backoff sleep is requested and no except clause runs
C14_MalformedMessageIsNoTrigger ==
    [][\A message \in Malformed :
          (~stop /\ Receive(message))
              => (pc' = "recv" /\ delays' = delays /\ last_error' = last_error
                  /\ added' = added)]_vars

\* the values one can get to from v through dict values and list elements
RECURSIVE ReachableFrom(_)
ReachableFrom(v) ==
    {v} \cup (IF v[1] = "dict"
              THEN UNION { ReachableFrom(v[2][k][2]) : k \in 1..Len(v[2]) }
              ELSE IF v[1] = "list"
              THEN UNION { ReachableFrom(v[2][k]) : k \in 1..Len(v[2]) }
              ELSE {})

\* a dict with a truthy error entry or a success entry that is false
FailureMarker(v) ==
    /\ v[1] = "dict"
    /\ \/ \E k \in 1..Len(v[2]) : v[2][k][1] = "error" /\ Truthy(v[2][k][2])
       \/ \E k \in 1..Len(v[2]) : v[2][k][1] = "success" /\ v[2][k][2] = Bool(FALSE)

\* C15: _contains_failure(x) is true exactly when some dict reachable from
\* x through dict values and list elements, at any depth, has a truthy
\* error entry or a success entry that is false; and a trace event is
\* classified automation_failure exactly in that case
C15_ContainsFailureIffMarkerReachable ==
    probe.on = "message" =>
        LET marked == \E v \in ReachableFrom(probe.message.data) : FailureMarker(v)
        IN  /\ probe.walked => (probe.failure <=> marked)
            /\ (probe.classified /\ probe.message.event_type = "trace")
                   => (probe.trigger = "automation_failure" <=> marked)

\* C15 happens: a marker two levels down in a list was found, and one
\* three levels down, in a trace that was classified
C15_Witness ==
    /\ probe.on = "message"
    /\ probe.walked /\ probe.classified
    /\ probe.message.data = Dict(<< <<"other", List(<< Str("x"), Dict(<< <<"error", Num(1)>> >>) >>)>> >>)
    /\ probe.failure
    /\ probe.trigger = "automation_failure"

\* "an integer >= 40 or a string equal, case-insensitively, to ERROR or
\* CRITICAL"
SevereLevel(level) ==
    \/ level[1] = "int" /\ level[2] >= 40
    \/ level[1] = "str" /\ level[2] \in {"error", "Error", "ERROR",
                                          "critical", "Critical", "CRITICAL"}

\* the trigger kind the table of C16 gives a message
TableTrigger(m) ==
    IF ~m.decodes \/ m.type # "event" \/ m.shape \in {"not_object", "event_missing"}
    THEN "none"
    ELSE IF /\ m.event_type = "system_log_event"
            /\ m.shape \notin {"event_not_object", "data_not_object"}
            /\ SevereLevel(m.level)
    THEN "error_log"
    ELSE IF /\ m.event_type = "supervisor_event" /\ m.subtype = "addon"
            /\ m.shape = "ok"
            /\ SevereLevel(m.level)
    THEN "error_log"
    ELSE IF /\ m.event_type = "state_changed" /\ m.state = "unavailable"
            /\ m.shape = "ok"
    THEN "entity_unavailable"
    ELSE IF /\ m.event_type = "trace"
            /\ \E v \in ReachableFrom(m.data) : FailureMarker(v)
    THEN "automation_failure"
    ELSE "none"

\* C16: every received message gets the trigger kind of the table (error_log,
\* entity_unavailable, automation_failure, or none for the other event kinds
\* and for messages that are no events), and it is handed to the batcher
\* only if it has a trigger
C16_TriggerTable ==
    (probe.on = "message" /\ probe.classified) =>
        /\ probe.trigger = TableTrigger(probe.message)
        /\ probe.handed => probe.trigger \in {"error_log", "entity_unavailable",
                                               "automation_failure"}

\* the readable lines of a directory
Readable(lines) == SelectSeq(lines, LAMBDA line : ~Unreadable(line))

\* C17: the scan at startup skips blank, cut-short and non-JSON lines and
\* lines whose JSON is no object, never fails on them, and registers the
\* fingerprint of every well-formed record of every segment
C17_MalformedLinesSkipped ==
    pc # "start" =>
        /\ pc = "connect"
        /\ {problems[i].pattern.text : i \in 1..Len(problems)}
               = PatternTexts(Readable(AllLines(files)))
        /\ \A i \in 1..Len(problems) :
               problems[i].count
                  = MaxOccurrence(Readable(AllLines(files)), problems[i].pattern.text)

\* C18: every fingerprint of the registry, rehydrated or newly registered,
\* has a pattern text that passes validate_pattern, and a backend result
\* whose recurrence_pattern fails it registers no fingerprint
C18_RegistryValidated ==
    /\ [](\A i \in 1..Len(problems) : validate_pattern(problems[i].pattern.text))
    /\ [][Len(problems') > Len(problems)
            => validate_pattern(problems'[Len(problems')].pattern.text)]_vars

\* C19: when monitor has returned with stop set, every event it handed to
\* the batcher has been through a completed handle_batch, and the batcher's
\* timer task is neither sleeping through its window nor inside a callback
C19_StopLeavesNothingBehind ==
    (pc = "done" /\ stop) =>
        /\ added \subseteq completed
        /\ batcher._task.state \notin {"window", "callback"}

\* C20: a write that fails inside handle_batch is caught there: no batcher
\* task ends with its exception, the exception never reaches an except
\* clause of the connection loop, and so no backoff sleep is due to it
C20_WriteFailureContained ==
    /\ batcher._task.state # "failed"
    /\ \A i \in 1..Len(batcher._immediate) : batcher._immediate[i].state # "failed"
    /\ last_error # "OSError"

\* C21: a line written to a segment is never removed or rewritten (every
\* segment of the directory stays, and its old content stays a prefix of its
\* new content), and the segments change only when the monitor's
\* ProblemLogger writes a record
C21_AppendOnlySingleWriter ==
    /\ [][probe.on = "dashboard" =>
            \A k \in 1..Len(files) :
                k \notin probe.unlinked
                    => /\ k \notin probe'.unlinked
                       /\ Len(files'[k]) >= Len(files[k])
                       /\ SubSeq(files'[k], 1, Len(files[k])) = files[k]]_vars
    /\ [][files' # files => written' # written]_vars

\* C22: with a window above zero, every event handed to EventBatcher.add is
\* eventually delivered to a callback that completes, by the timer task and
\* the passing of time alone
C22_TimerAloneDelivers ==
    \A id \in 1..MaxEvents :
        (batch_seconds > 0 /\ id \in added) ~> (id \in completed)

\* C23: the records are written in the order in which their batches were
\* formed (every event of an earlier record was accepted before every event
\* of a later one), and at most one handle_batch is in progress at a time
C23_RecordsInBatchOrder ==
    /\ \A j, k \in 1..Len(written) :
           j < k => \A a \in EventIds(written[j].event), b \in EventIds(written[k].event) :
                       a < b
    /\ ActiveCallbacks <= 1

\* the fingerprints of the registry that the batch matches, by position
Hits(probs, events) == {i \in 1..Len(probs) : Matches(probs[i].pattern.text, events)}

\* C24: a batch recorded as a recurrence matched at least one fingerprint; the
\* step that records it adds one to the counter of the earliest registered
\* fingerprint among those it matches and changes nothing else of the
\* registry: the other counters, the patterns and their order stay as they were.
C24_FirstMatchWins ==
    [][(/\ Len(written') = Len(written) + 1
        /\ written'[Len(written')].result = NoResult
        /\ ~written'[Len(written')].error)
       => LET events == written'[Len(written')].event
              hits == Hits(problems, events)
          IN  /\ hits # {}
              /\ \E m \in hits :
                    /\ \A j \in hits : m <= j
                    /\ problems' = [problems EXCEPT ![m].count = @ + 1]
                    /\ written'[Len(written')].occurrence = problems'[m].count]_vars

\* C24 witness: the last record is a recurrence of a batch that matches two
\* fingerprints of the registry, and the earlier of the two has counted it
C24_Witness ==
    /\ written # << >>
    /\ LET last == written[Len(written)]
           hits == Hits(problems, last.event)
       IN  /\ last.result = NoResult /\ ~last.error
           /\ Cardinality(hits) >= 2
           /\ \E m \in hits : (\A j \in hits : m <= j) /\ problems[m].count = last.occurrence

\* the batches handed to the callback so far and the queue of the batcher:
\* the recorded ones, the queue, the one of the timer task's callback, the one
\* of the callback awaited in flush(), those of the unfinished immediate tasks
AllBatches ==
    [k \in 1..Len(written) |-> written[k].event]
    \o << batcher._events, batcher._task.batch, inline >>
    \o [i \in 1..Len(batcher._immediate) |->
            IF batcher._immediate[i].state \in {"pending", "sleeping"}
            THEN batcher._immediate[i].batch ELSE << >>]

\* the number of places of a batch that hold the event
CountIn(events, id) == Cardinality({i \in 1..Len(events) : events[i].id = id})

\* the events of a batch are in the order of their add()
InAddOrder(events) == \A i, j \in 1..Len(events) : i < j => events[i].id < events[j].id

\* C25: no event is in two batches, nor twice in one.  With a window of 0
\* every batch is one event, and add() makes one task, for that event alone.
\* With a window above 0 add() puts the event at the end of the queue, and a
\* timer that expires hands the whole queue to the callback, in add order,
\* and leaves the queue empty.
C25_BatchComposition ==
    /\ [](\A id \in added :
            /\ \A k \in 1..Len(AllBatches) : CountIn(AllBatches[k], id) <= 1
            /\ Cardinality({k \in 1..Len(AllBatches) : CountIn(AllBatches[k], id) = 1}) <= 1)
    /\ [](batch_seconds <= 0 => \A k \in 1..Len(AllBatches) : Len(AllBatches[k]) <= 1)
    /\ [][\A id \in added' \ added :
            IF batch_seconds <= 0
            THEN LET tasks == batcher'._immediate
                 IN  /\ batcher'._events = << >>
                     /\ tasks # << >>
                     /\ tasks[Len(tasks)].state = "pending"
                     /\ EventIds(tasks[Len(tasks)].batch) = {id}
                     /\ Len(tasks[Len(tasks)].batch) = 1
                     /\ Cardinality({i \in 1..Len(tasks) : id \in EventIds(tasks[i].batch)}) = 1
            ELSE LET queue == batcher'._events
                 IN  /\ queue # << >>
                     /\ queue[Len(queue)].id = id
                     /\ SubSeq(queue, 1, Len(queue) - 1) \in {batcher._events, << >>}
                     /\ InAddOrder(queue)
                     /\ batcher'._immediate = << >>]_vars
    /\ [][(/\ batcher._task.state = "window"
            /\ batcher._task.left = 0
            /\ batcher'._task # batcher._task
            /\ batcher'._task.state # "cancelled")
           => /\ batcher'._events = << >>
              /\ InAddOrder(batcher._events)
              /\ IF batcher'._task.state = "callback"
                 THEN batcher'._task.batch = batcher._events
                 ELSE Len(written') = Len(written) + 1
                      => written'[Len(written')].event = batcher._events]_vars

\* C25 witness: the timer has expired on a queue of two events and its
\* callback holds both as one batch
C25_Witness ==
    /\ batch_seconds > 0
    /\ batcher._task.state = "callback"
    /\ Len(batcher._task.batch) = 2
    /\ batcher._events = << >>

\* two events that follow each other in one batch, both with a time_fired
TimedNeighbours(events) ==
    {i \in 1..(Len(events) - 1) :
        /\ events[i + 1].id = events[i].id + 1
        /\ events[i].time_fired # NoTime
        /\ events[i + 1].time_fired # NoTime}

\* C26 as stated: two events accepted one after the other whose time_fired
\* differ, in either direction, by more than batch_seconds are in no batch
\* together.
C26_GapSeparatesBatches ==
    \A k \in 1..Len(AllBatches) : \A i \in TimedNeighbours(AllBatches[k]) :
        LET d == AllBatches[k][i + 1].time_fired - AllBatches[k][i].time_fired
        IN  ~(d > batch_seconds \/ -d > batch_seconds)

\* C26 amended: two events accepted one after the other, the second with a
\* time_fired more than batch_seconds after that of the first, are in no
\* batch together.
C26_ForwardGapSeparatesBatches ==
    \A k \in 1..Len(AllBatches) : \A i \in TimedNeighbours(AllBatches[k]) :
        AllBatches[k][i + 1].time_fired - AllBatches[k][i].time_fired <= batch_seconds

\* C26 witness: with a window above 0, two events were accepted one after the
\* other across a forward gap and recorded in two batches
C26_Witness ==
    /\ batch_seconds > 0
    /\ Len(written) = 2
    /\ Len(written[1].event) = 1 /\ Len(written[2].event) = 1
    /\ written[2].event[1].id = written[1].event[1].id + 1
    /\ written[1].event[1].time_fired # NoTime
    /\ written[2].event[1].time_fired # NoTime
    /\ written[2].event[1].time_fired - written[1].event[1].time_fired > batch_seconds

\* the places of wire that hold the message
Places(msg) == {k \in 1..Len(wire) : wire[k] = msg}

\* on this connection the token was sent and auth_ok received after it
AuthSucceeded ==
    \E i \in Places(Sent("auth_token")) : \E j \in Places(Received("auth_ok")) : i < j

\* both subscriptions were sent on this connection
Subscribed ==
    Places(Sent("subscribe_events")) # {} /\ Places(Sent("supervisor/subscribe")) # {}

\* C27: on every connection the token is sent once at most and only after
\* auth_required was received; subscribe_events is sent only after the token
\* was sent and auth_ok received after it, and supervisor/subscribe right
\* after subscribe_events; without a successful authentication no
\* subscription is sent; the message loop is entered, and an event accepted,
\* only on a connection with both subscriptions sent.
C27_HandshakeOrder ==
    /\ [](/\ Cardinality(Places(Sent("auth_token"))) <= 1
          /\ \A k \in Places(Sent("auth_token")) :
                \E j \in Places(Received("auth_required")) : j < k
          /\ \A k \in Places(Sent("subscribe_events")) :
                \E i \in Places(Sent("auth_token")) :
                    \E j \in Places(Received("auth_ok")) : i < j /\ j < k
          /\ \A k \in Places(Sent("supervisor/subscribe")) :
                k > 1 /\ wire[k - 1] = Sent("subscribe_events")
          /\ Cardinality(Places(Sent("subscribe_events"))) <= 1
          /\ Cardinality(Places(Sent("supervisor/subscribe"))) <= 1
          /\ (~AuthSucceeded =>
                Places(Sent("subscribe_events")) \cup Places(Sent("supervisor/subscribe")) = {})
          /\ (pc = "recv" => Subscribed))
    /\ [][(added' # added \/ event' # event) => Subscribed]_vars

\* C27 witness: after a failed attempt the monitor has reconnected, gone
\* through the whole handshake and accepted an event
C27_Witness ==
    /\ delays # << >>
    /\ pc = "recv"
    /\ wire = <<Received("auth_required"), Sent("auth_token"), Received("auth_ok"),
                Sent("subscribe_events"), Sent("supervisor/subscribe")>>
    /\ added # {}

\* C28: the names of the segments opened so far are pairwise distinct, and a
\* segment opened earlier has the lesser name.
C28_NamesDistinctAndSorted ==
    probe.on = "names" =>
        \A i, j \in 1..Len(probe.opened) :
            i < j => /\ probe.opened[i] # probe.opened[j]
                     /\ NameLess(probe.opened[i], probe.opened[j])

\* C29: an incident is attempted five times at most, every failed attempt
\* but the last followed by another; one whose attempts all raised is marked
\* processed by the first due pass that reaches it after the fifth, and a
\* processed incident is not attempted again.  A pass in which an attempt
\* raises stops there: no later incident is attempted, the next run is set to
\* now + backoff and the backoff is doubled up to 60.  A due pass without a
\* failure sets the next run to now + rate_seconds and the backoff to 1.  The
\* backoff is one of 1, 2, 4, 8, 16, 32, 60.
C29_FiveAttemptsThenGiveUp ==
    /\ [](probe.on = "runner" =>
            /\ probe._backoff \in {1, 2, 4, 8, 16, 32, 60}
            /\ \A i \in Incidents :
                  /\ probe.tries[i] <= 5
                  /\ (i \in probe._processed /\ probe.raised[i] = probe.tries[i])
                        => probe.tries[i] = 5)
    /\ [][probe.on = "runner" =>
            /\ \A i \in probe._processed :
                  i \in probe'._processed /\ probe'.tries[i] = probe.tries[i]
            /\ \A i \in Incidents :
                  probe'.raised[i] # probe.raised[i] =>
                      /\ probe'.raised[i] = probe.raised[i] + 1
                      /\ probe'.tries[i] = probe.tries[i] + 1
                      /\ \A j \in Incidents : j > i => probe'.tries[j] = probe.tries[j]
                      /\ probe'._next_run = probe.now + probe._backoff
                      /\ probe'._backoff = Min(2 * probe._backoff, 60)
            /\ (/\ probe'.runs # probe.runs
                /\ probe.now >= probe._next_run
                /\ probe'.raised = probe.raised)
                  => /\ probe'._next_run = probe.now + probe.rate_seconds
                     /\ probe'._backoff = 1
            /\ \A i \in 1..probe.listed :
                  (/\ probe'.runs # probe.runs
                   /\ probe.now >= probe._next_run
                   /\ probe.raised[i] = 5
                   /\ \A j \in 1..(i - 1) : j \in probe._processed)
                  => (i \in probe'._processed /\ probe'.tries[i] = 5)]_vars

\* C29 witness: the first incident raised five times and was given up, and
\* the failures of the next one have taken the backoff to its cap
C29_Witness ==
    /\ probe.on = "runner"
    /\ 1 \in probe._processed
    /\ probe.raised[1] = 5
    /\ probe.raised[2] >= 1
    /\ probe._backoff = 60

\* C30: a run_once call made while now < _next_run changes nothing of the
\* runner: no backend call, no analysis record, the same processed set,
\* attempt counters, backoff, next-run time and pattern store.
C30_EarlyRunIsNoOp ==
    [][(/\ probe.on = "runner"
        /\ probe'.runs # probe.runs
        /\ probe.now < probe._next_run)
       => probe' = [probe EXCEPT !.runs = probe'.runs]]_vars

\* C30 witness: with the clock still at 0, a first pass has made its backend
\* call and set the next run, and run_once was called again before that time,
\* with an incident waiting that no pass has looked at
C30_Witness ==
    /\ probe.on = "runner"
    /\ probe.now = 0
    /\ probe.now < probe._next_run
    /\ probe.runs >= 2
    /\ probe.llm_calls = 1
    /\ \E i \in 1..probe.listed : i \notin probe._processed /\ probe.tries[i] = 0

\* the number of analysis records written for incident i
RecordsOf(i) == Cardinality({k \in 1..Len(probe.records) : probe.records[k] = i})

\* C31: the analysis log holds at most one record for an incident, and the
\* records follow the order of the incident paths; once an incident is
\* marked processed no pass attempts it, calls the backend for it or writes
\* a record for it.
C31_OneRecordPerIncident ==
    /\ [](probe.on = "runner" =>
            /\ \A i \in Incidents : RecordsOf(i) <= 1
            /\ \A j, k \in 1..Len(probe.records) :
                  j < k => probe.records[j] < probe.records[k])
    /\ [][probe.on = "runner" =>
            \A i \in probe._processed :
                /\ probe'.tries[i] = probe.tries[i]
                /\ {k \in 1..Len(probe'.records) : probe'.records[k] = i}
                      = {k \in 1..Len(probe.records) : probe.records[k] = i}]_vars

\* the stored patterns found in the text, by position
StoreHits(text) ==
    {k \in 1..Len(probe.patterns) :
        Search([text |-> probe.patterns[k].pattern, literal |-> FALSE, dotall |-> FALSE],
               text)}

\* incident i is the only one the step attempts, and its context has events
AttemptedAlone(i) ==
    /\ probe'.tries[i] = probe.tries[i] + 1
    /\ \A j \in Incidents : j # i => probe'.tries[j] = probe.tries[j]
    /\ i \notin probe'.no_events

\* C32: a pass that attempts an incident whose context a stored pattern is
\* found in makes no backend call and writes no record; the first such
\* pattern gets one occurrence more and the incident's end as last_occurred;
\* nothing else of the store changes.
C32_KnownPatternOnlyCounts ==
    [][probe.on = "runner" =>
        \A i \in Incidents :
            (AttemptedAlone(i) /\ StoreHits(ContextText(i)) # {})
            => /\ probe'.llm_calls = probe.llm_calls
               /\ probe'.records = probe.records
               /\ \E m \in StoreHits(ContextText(i)) :
                     /\ \A k \in StoreHits(ContextText(i)) : m <= k
                     /\ probe'.patterns = [probe.patterns EXCEPT ![m] =
                            [pattern |-> probe.patterns[m].pattern,
                             occurrences |-> probe.patterns[m].occurrences + 1,
                             last_occurred |-> i]]]_vars

\* C32 witness: the first incident was analysed and left a pattern, the
\* second matched it: one backend call, one record, two occurrences
C32_Witness ==
    /\ probe.on = "runner"
    /\ probe._processed = {1, 2}
    /\ probe.llm_calls = 1
    /\ probe.records = <<1>>
    /\ Len(probe.patterns) = 1
    /\ probe.patterns[1].occurrences = 2
    /\ probe.patterns[1].last_occurred = 2

\* C33: in a run with limit = N >= 1 at most N records are written.
C33_RecordsWithinLimit ==
    limit >= 1 => Len(written) <= limit

\* the largest counter the registry probs holds for the pattern text
CountOf(probs, text) ==
    LET counts == {probs[k].count :
                      k \in {n \in 1..Len(probs) : probs[n].pattern.text = text}}
    IN  CHOOSE m \in counts : \A n \in counts : m >= n

\* C34: whenever monitor would be started again on the problem directory as
\* it stands, each fingerprint the running process holds is rehydrated with
\* the counter the process has reached for it, that is the highest occurrence
\* it has written for that fingerprint.
C34_RestartKeepsCounters ==
    \A i \in 1..Len(problems) :
        LET text == problems[i].pattern.text
            loaded == LoadProblems(files)
        IN  IndexOfPattern(loaded, text) # 0
            => CountOf(loaded, text) = CountOf(problems, text)

\* C35: the callback is never entered with an empty batch: a timer task that
\* can expire has a queue to hand over, every callback in progress (of the
\* timer task, of flush(), of an immediate task) holds at least one event, and
\* so does every record a callback has written.
C35_NoEmptyBatch ==
    /\ batcher._task.state = "window" => batcher._events # << >>
    /\ batcher._task.state = "callback" => batcher._task.batch # << >>
    /\ pc = "flush_callback" => inline # << >>
    /\ \A i \in 1..Len(batcher._immediate) :
          batcher._immediate[i].state \in {"pending", "sleeping"}
          => batcher._immediate[i].batch # << >>
    /\ \A k \in 1..Len(written) : written[k].event # << >>

\* C35 witness: the timer has expired on a queue of one event and, while its
\* callback is in progress, add() has queued a further event: the task is
\* about to decide whether to start the next timer
C35_Witness ==
    /\ batch_seconds > 0
    /\ batcher._task.state = "callback"
    /\ batcher._task.left = 0
    /\ Len(batcher._task.batch) = 1
    /\ batcher._task.batch # << >>
    /\ batcher._events # << >>

\* the batcher holds a task that ended with the exception of its callback
Poisoned(b) ==
    \/ b._task.state = "failed"
    \/ \E i \in 1..Len(b._immediate) : b._immediate[i].state = "failed"

\* C36: when flush() raises the exception of a callback into the connection
\* loop, the batcher keeps no task that ended with that exception, so that
\* no later flush() raises it again and add() arms the timer as before.
C36_ExceptionSurfacedOnce ==
    [][(last_error' = "OSError" /\ delays' # delays) => ~Poisoned(batcher')]_vars

\* the due passes that incident i can still have to wait for: each incident
\* listed up to it and not yet processed takes at most the attempts it has
\* left, and one pass more in which it is given up
RECURSIVE PassesLeft(_, _)
PassesLeft(r, i) ==
    IF i = 0 THEN 0
    ELSE PassesLeft(r, i - 1)
         + (IF i \in r._processed THEN 0 ELSE MaxAttempts + 1 - r._attempts[i])

\* C37: an incident whose analysis keeps raising does not hold up the ones
\* listed after it: every due pass either processes a listed incident or
\* brings it nearer (an incident before it is processed or has used one more
\* of its five attempts), and with run_forever calling run_once again and
\* again every listed incident is in the end processed, provided the passes
\* that can take are still within the number of passes of the run.
C37_FailingIncidentDoesNotBlock ==
    /\ [][\A i \in Incidents :
            (/\ probe'.runs = probe.runs + 1
             /\ ~NotDue(probe)
             /\ i <= probe.listed
             /\ i \notin probe._processed)
            => \/ i \in probe'._processed
               \/ PassesLeft(probe', i) < PassesLeft(probe, i)]_vars
    /\ \A i \in Incidents :
          (/\ i <= probe.listed
           /\ i \notin probe._processed
           /\ probe.runs + PassesLeft(probe, i) <= MaxRuns)
          ~> (i \in probe._processed)

\* C37 witness: the analysis of the first incident raised in five passes, the
\* sixth pass gave it up and went on to the second incident, which has its
\* analysis record
C37_Witness ==
    /\ probe.on = "runner"
    /\ probe.raised[1] = MaxAttempts
    /\ probe._processed = {1, 2}
    /\ probe.raised[2] = 0
    /\ probe.records = <<2>>

\* C38: every event observe has written to a segment that the runner has
\* marked processed, without its analysis ever having raised, was among the
\* lines the runner matched or analysed.  A processed segment is never read
\* again, so an event that is missing then is never covered.
C38_PersistedEventsCovered ==
    \A i \in Incidents :
        (i \in probe._processed /\ probe.raised[i] = 0)
        => probe.covered[i] = probe.lines[i]

====
